---- MODULE Spec2Model ----
(***************************************************************************)
(* The mask editor of src/components/MaskEditor.tsx as a state machine:    *)
(* one mounted MaskEditor component, its React state and refs, the image   *)
(* load started by its effect, its pointer/touch handlers, the clear and   *)
(* brush-size controls and the getMaskBase64 handle exposed to the parent. *)
(* One action is one handler run followed by the re-render React performs  *)
(* before the next event, so a handler reads the state of the last render. *)
(***************************************************************************)
EXTENDS Integers, Sequences, FiniteSets, TLC

\* ------------------------------------------------------------ bounds
\* Number of events (handler runs, prop changes, image loads) explored
\* after the mount; calls of getMaskBase64 are not counted.
MaxOps == 6
\* Longest Stroke List handed to getMaskBase64 when it is checked alone.
MaxStrokes == 3
\* Most renders the application asks for at a time: items in the render
\* history plus calls that have not settled.
MaxHistory == 2
\* Longest prompt, in pieces (a typed or analysed text, a refine request).
MaxPrompt == 3

\* ------------------------------------------------- program constants
\* useState(20), and the range input's min and max.
BrushDefault == 20
BrushMin == 5
BrushMax == 100
BrushSizes == {BrushMin, BrushDefault, BrushMax}

\* A canvas element without width/height attributes is 300 x 150.
DefaultCanvas == [width |-> 300, height |-> 150]

\* ------------------------------------------------------------ inputs
\* The source images the parent may pass as imageSrc, with the natural
\* size the browser decodes for each.
Images == {"imgA", "imgB"}
Natural ==
  [imgA |-> [width |-> 800, height |-> 600],
   imgB |-> [width |-> 400, height |-> 300]]

\* On-screen bounding boxes of the canvas (getBoundingClientRect).
Rects ==
  {[left |-> 10, top |-> 20, width |-> 400, height |-> 300],
   [left |-> 0, top |-> 0, width |-> 200, height |-> 150]}

\* Pointer targets inside the box, in quarters of its width and thirds of
\* its height; with the sizes above every mapped coordinate is an integer,
\* so the floating-point product of getCoordinates is exact.
Targets == {<<1, 1>>, <<3, 1>>}

PointerAt(rect, t) ==
  [clientX |-> rect.left + (rect.width * t[1]) \div 4,
   clientY |-> rect.top + (rect.height * t[2]) \div 3]

\* A mouse event carries its own clientX/clientY; a touch event carries a
\* touches list, which a malformed event leaves empty.
Events(rect) ==
  {[kind |-> "mouse", points |-> <<PointerAt(rect, t)>>] : t \in Targets}
  \cup {[kind |-> "touch", points |-> <<PointerAt(rect, t)>>] : t \in Targets}
  \cup {[kind |-> "touch", points |-> <<>>]}

\* ------------------------------------------------------------- state
VARIABLES
  mounted,       \* canvasRef.current / containerRef.current are set
  imageSrc,      \* the imageSrc prop
  pendingLoads,  \* Image objects whose onload has not run, with the
                 \* isDrawing/brushSize their draw() closure captured
  canvas,        \* canvasRef.current.width / height
  ctx2d,         \* getContext('2d') yields a context on this platform
  isDrawing,     \* useState(false)
  brushSize,     \* useState(20)
  hasStrokes,    \* useState(false)
  paths,         \* paths.current: the committed Stroke List
  currentPath,   \* currentPath.current: the in-progress sequence
  visible,       \* what the on-screen canvas shows (strokes painted
                 \* since its last clearRect)
  lastOp,        \* the operation that ran last
  emitted,       \* the onMaskChange calls made by the last operation
  exported,      \* what getMaskBase64 returned, if it ran last
  prevExported,  \* what the call before returned, if the last two
                 \* operations were both getMaskBase64 calls
  threw,         \* the last handler raised an exception
  trail,         \* result getMaskBase64 had just before the gesture
                 \* start, while only moves and exports followed it
  brushAtStart,  \* brushSize when the current/last gesture started
  sinceClear,    \* clearMask ran and no stroke was committed since
  opCount,       \* events handled since the mount
  mapIn,         \* the event and bounding box getCoordinates was last
                 \* called with on its own, <<>> if it was not
  mapOut,        \* the point that call returned, <<>> if it returned none
  sent,          \* the request the editor's host issued, if its
                 \* performGeneration or handleRefineSubmit ran last
  clientFn,      \* the function of geminiService.ts that was called
  clientArgs,    \* the arguments it was called with
  clientPc,      \* where that call stands: at which await, or how it ended
  attempts,      \* let attempts = 0 of the running call
  modelCalls,    \* the ai.models.generateContent calls it has made
  responses,     \* how the calls that have settled were answered
  clientResult,  \* what it returned or threw, <<>> while it runs
  app,           \* the useState values of App
  resultDisplay, \* the useState values of ResultDisplay while it is shown
  inFlight,      \* the analyzeInteriorImage and generateRenderedImage
                 \* calls of App that have not settled
  appOp          \* the handler of App or ResultDisplay that ran last,
                 \* with the call it issued or saw settle

vars ==
  <<mounted, imageSrc, pendingLoads, canvas, ctx2d, isDrawing, brushSize,
    hasStrokes, paths, currentPath, visible, lastOp, emitted, exported,
    prevExported, threw, trail, brushAtStart, sinceClear, opCount,
    mapIn, mapOut, sent,
    clientFn, clientArgs, clientPc, attempts, modelCalls, responses,
    clientResult, app, resultDisplay, inFlight, appOp>>

\* The state of the editor and of what is observed of it.
editorVars ==
  <<mounted, imageSrc, pendingLoads, canvas, ctx2d, isDrawing, brushSize,
    hasStrokes, paths, currentPath, visible, lastOp, emitted, exported,
    prevExported, threw, trail, brushAtStart, sinceClear, opCount,
    mapIn, mapOut, sent>>

\* The state of a call of the generation client.
clientVars ==
  <<clientFn, clientArgs, clientPc, attempts, modelCalls, responses,
    clientResult>>

\* ---------------------------------------------------- pure functions
\* The null getMaskBase64 returns for "no mask"; a mask is the same record
\* with null = FALSE, the raster size and the strokes painted white on black.
NoMask == [null |-> TRUE, width |-> 0, height |-> 0, painted |-> <<>>]
\* exported and trail hold <<result>>, or <<>> when there is none.
NotCalled == <<>>
NoTrail == <<>>
\* sent holds <<request>>, or <<>> when the host's callers did not run last.
NoRequest == <<>>

\* ctx.stroke() paints nothing for a subpath of a single point (a moveTo
\* with no lineTo); a subpath with a line, also of zero length, is painted
\* with its round caps.
Stroked(strokes) == SelectSeq(strokes, LAMBDA s : Len(s.points) >= 2)

\* MaskOf without its first line: an empty list yields an all-black mask.
MaskOf_NoEmptyCheck(pths, cur, isMounted, hasCtx, cnv) ==
  IF ~isMounted THEN NoMask
  ELSE IF ~hasCtx THEN NoMask
  ELSE [null |-> FALSE, width |-> cnv.width, height |-> cnv.height,
        painted |-> Stroked(pths)]

\* MaskOf rasterizing what draw() shows: the in-progress stroke as well.
MaskOf_WithCurrent(pths, cur, isMounted, hasCtx, cnv) ==
  LET all == IF Len(cur) > 0
             THEN Append(pths, [points |-> cur, size |-> BrushDefault])
             ELSE pths
  IN IF Len(all) = 0 THEN NoMask
     ELSE IF ~isMounted THEN NoMask
     ELSE IF ~hasCtx THEN NoMask
     ELSE [null |-> FALSE, width |-> cnv.width, height |-> cnv.height,
           painted |-> Stroked(all)]

\* getMaskBase64 with the committed list, the canvas and the context as
\* they are when it runs. The in-progress sequence cur is within its reach
\* (currentPath.current) and is not read.
MaskOf(pths, cur, isMounted, hasCtx, cnv) ==
  IF Len(pths) = 0 THEN NoMask
  ELSE IF ~isMounted THEN NoMask
  ELSE IF ~hasCtx THEN NoMask
  ELSE [null |-> FALSE, width |-> cnv.width, height |-> cnv.height,
        painted |-> Stroked(pths)]

getMaskBase64 == MaskOf(paths, currentPath, mounted, ctx2d, canvas)

\* getCoordinates raises a TypeError on e.touches[0].clientX when the
\* touches list is empty (reached only past the canvas check).
throwsTypeError(e) == mounted /\ e.kind = "touch" /\ Len(e.points) = 0

\* getCoordinates: the event position in canvas pixels.
getCoordinates(e, rect) ==
  IF ~mounted THEN [x |-> 0, y |-> 0]
  ELSE [x |-> ((e.points[1].clientX - rect.left) * canvas.width) \div rect.width,
        y |-> ((e.points[1].clientY - rect.top) * canvas.height) \div rect.height]

\* ------------------------------------------- number arithmetic (doubles)
\* A JavaScript number is an IEEE 754 double: a significand of Prec bits
\* and a power of two. A positive double is [sig, exp] with value
\* (sig[1] * Radix^2 + sig[2] * Radix + sig[3]) * 2^exp, the significand
\* held in three limbs, the first of 17 bits with its top bit set, the
\* others of 18 bits; zero has the significand 0. Every operation rounds
\* its exact result to the nearest double, ties to the even significand.
\* The operators below take natural numbers under 2^12.
Prec == 53
Radix == 2^18
TopBit == 2^16

Zero == [sig |-> <<0, 0, 0>>, exp |-> 0]

\* The number of binary digits of a positive integer.
BitLen(n) == CHOOSE k \in 1..30 : 2^(k - 1) <= n /\ n < 2^k

\* The next double above [sig |-> <<l1, l2, l3>>, exp |-> e].
Successor(l1, l2, l3, e) ==
  IF l3 + 1 < Radix THEN [sig |-> <<l1, l2, l3 + 1>>, exp |-> e]
  ELSE IF l2 + 1 < Radix THEN [sig |-> <<l1, l2 + 1, 0>>, exp |-> e]
  ELSE IF l1 + 1 < 2 * TopBit THEN [sig |-> <<l1 + 1, 0, 0>>, exp |-> e]
  ELSE [sig |-> <<TopBit, 0, 0>>, exp |-> e + 1]

\* Round to nearest, ties to even: the exact value lies between the double
\* <<l1, l2, l3>> * 2^e and its successor; guard is the first digit cut off
\* and sticky says that some later digit is not zero.
Nearest(l1, l2, l3, e, guard, sticky) ==
  IF guard = 1 /\ (sticky \/ l3 % 2 = 1)
  THEN Successor(l1, l2, l3, e)
  ELSE [sig |-> <<l1, l2, l3>>, exp |-> e]

\* The double of a natural number, and half a double (both exact).
ToDouble(n) ==
  IF n = 0 THEN Zero
  ELSE [sig |-> <<n * 2^(17 - BitLen(n)), 0, 0>>, exp |-> BitLen(n) - Prec]

Half(d) == IF d = Zero THEN Zero ELSE [d EXCEPT !.exp = @ - 1]

\* a / b for positive integers: both are scaled to n / dn in [1, 2), and
\* long division yields the three limbs of the quotient, the guard digit
\* and the remainder.
fdiv(a, b) ==
  LET la == BitLen(a)
      lb == BitLen(b)
      a1 == IF lb > la THEN a * 2^(lb - la) ELSE a
      dn == IF la > lb THEN b * 2^(la - lb) ELSE b
      adj == IF a1 < dn THEN 1 ELSE 0
      n == a1 * 2^adj
      q1 == (n * TopBit) \div dn
      r1 == (n * TopBit) % dn
      q2 == (r1 * Radix) \div dn
      r2 == (r1 * Radix) % dn
      q3 == (r2 * Radix) \div dn
      r3 == (r2 * Radix) % dn
  IN Nearest(q1, q2, q3, (la - lb - adj) - (Prec - 1),
             (2 * r3) \div dn, (2 * r3) % dn # 0)

\* n * d for a natural number n (itself exactly a double) and a double d:
\* the limbs of the exact product, cut back to Prec digits.
fmul(n, d) ==
  IF n = 0 \/ d = Zero THEN Zero
  ELSE LET p3 == n * d.sig[3]
           p2 == n * d.sig[2] + p3 \div Radix
           p1 == n * d.sig[1] + p2 \div Radix
           low2 == p2 % Radix
           low3 == p3 % Radix
           s == BitLen(p1) - 17
           cut == low3 % 2^s
       IN Nearest(p1 \div 2^s,
                  (p1 % 2^s) * 2^(18 - s) + low2 \div 2^s,
                  (low2 % 2^s) * 2^(18 - s) + low3 \div 2^s,
                  d.exp + s,
                  IF s = 0 THEN 0 ELSE cut \div 2^(s - 1),
                  s > 0 /\ cut % 2^(s - 1) # 0)

\* The state of the application around the editor.
appVars == <<app, resultDisplay, inFlight, appOp>>

\* App as it mounts: nothing uploaded, nothing shown, nothing requested.
AppMounted ==
  [appState |-> "IDLE", sourceImage |-> "none", analysisPrompt |-> <<>>,
   renderHistory |-> <<>>, errorMsg |-> <<>>, isMaskingMode |-> FALSE]
NotShown ==
  [shown |-> FALSE, selectedHistoryIndex |-> -1, isMasking |-> FALSE,
   activeTab |-> "generated"]
NoOp == [name |-> "mount", call |-> <<>>]
AppAtRest ==
  /\ app = AppMounted
  /\ resultDisplay = NotShown
  /\ inFlight = <<>>
  /\ appOp = NoOp

\* No function of geminiService.ts has been called.
NoArgs == [resolution |-> "2K", mask |-> <<>>, apiKey |-> FALSE]
ClientIdle ==
  /\ clientFn = "none"
  /\ clientArgs = NoArgs
  /\ clientPc = "idle"
  /\ attempts = 0
  /\ modelCalls = <<>>
  /\ responses = <<>>
  /\ clientResult = <<>>

\* draw(): what the canvas shows after a redraw that reads pths and cur
\* from the refs and isDrawing/brushSize from the closure it was made in.
draw(vis, pths, cur, closureDrawing, closureBrush) ==
  IF ~mounted \/ ~ctx2d THEN vis
  ELSE Stroked(pths)
       \o (IF closureDrawing /\ Len(cur) > 0
           THEN Stroked(<<[points |-> cur, size |-> closureBrush]>>)
           ELSE <<>>)

\* --------------------------------------------------------------- Init
\* The component has mounted and its effect has started loading imageSrc.
Init ==
  /\ mounted = TRUE
  /\ imageSrc \in Images
  /\ pendingLoads =
       {[img |-> imageSrc, isDrawing |-> FALSE, brushSize |-> BrushDefault]}
  /\ canvas = DefaultCanvas
  /\ (ctx2d = TRUE \/ ctx2d = FALSE)
  /\ isDrawing = FALSE
  /\ brushSize = BrushDefault
  /\ hasStrokes = FALSE
  /\ paths = <<>>
  /\ currentPath = <<>>
  /\ visible = <<>>
  /\ lastOp = "mount"
  /\ emitted = <<>>
  /\ exported = NotCalled
  /\ prevExported = NotCalled
  /\ threw = FALSE
  /\ trail = NoTrail
  /\ brushAtStart = 0
  /\ sinceClear = FALSE
  /\ opCount = 0
  /\ mapIn = <<>>
  /\ mapOut = <<>>
  /\ sent = NoRequest
  /\ ClientIdle
  /\ AppAtRest

\* What every operation but startDrawing does to brushAtStart: it is kept
\* while a gesture is active and forgotten by the next operation after it.
KeepStart == brushAtStart' = IF isDrawing THEN brushAtStart ELSE 0

\* An operation of the editor other than a getMaskBase64 call leaves no
\* returned value, and none leaves a request of the host.
Observed ==
  exported' = NotCalled /\ prevExported' = NotCalled /\ sent' = NoRequest

\* The editor's operations leave alone what is observed outside of them.
Elsewhere == UNCHANGED <<mapIn, mapOut>> /\ UNCHANGED <<clientVars, appVars>>

\* Every event counts toward the bound on the length of a run.
Event == opCount < MaxOps /\ opCount' = opCount + 1

\* ------------------------------------------------------------ actions
\* onMouseDown / onTouchStart
startDrawing ==
  \E rect \in Rects : \E e \in Events(rect) :
    /\ mounted
    /\ isDrawing' = TRUE
    /\ LET coords == getCoordinates(e, rect) IN
         IF throwsTypeError(e)
         THEN /\ threw' = TRUE
              /\ UNCHANGED <<currentPath, visible>>
         ELSE /\ threw' = FALSE
              /\ currentPath' = <<coords>>
              /\ visible' = draw(visible, paths, currentPath', isDrawing, brushSize)
    /\ Event
    /\ lastOp' = "startDrawing"
    /\ Elsewhere
    /\ emitted' = <<>>
    /\ Observed
    /\ trail' = <<getMaskBase64>>
    /\ brushAtStart' = brushSize
    /\ UNCHANGED <<mounted, imageSrc, pendingLoads, canvas, ctx2d, brushSize,
                   hasStrokes, paths, sinceClear>>

\* drawMove without its if (!isDrawing) return.
drawMove_NoIdleCheck ==
  \E rect \in Rects : \E e \in Events(rect) :
    /\ mounted
    /\ LET coords == getCoordinates(e, rect) IN
         IF throwsTypeError(e)
         THEN /\ threw' = TRUE
              /\ UNCHANGED <<currentPath, visible>>
         ELSE /\ threw' = FALSE
              /\ currentPath' = Append(currentPath, coords)
              /\ visible' = draw(visible, paths, currentPath', isDrawing, brushSize)
    /\ Event
    /\ lastOp' = "drawMove"
    /\ Elsewhere
    /\ emitted' = <<>>
    /\ Observed
    /\ trail' = trail
    /\ KeepStart
    /\ UNCHANGED <<mounted, imageSrc, pendingLoads, canvas, ctx2d, isDrawing,
                   brushSize, hasStrokes, paths, sinceClear>>

\* onMouseMove / onTouchMove
drawMove ==
  \E rect \in Rects : \E e \in Events(rect) :
    /\ mounted
    /\ IF ~isDrawing
       THEN /\ threw' = FALSE
            /\ UNCHANGED <<currentPath, visible>>
       ELSE LET coords == getCoordinates(e, rect) IN
         IF throwsTypeError(e)
         THEN /\ threw' = TRUE
              /\ UNCHANGED <<currentPath, visible>>
         ELSE /\ threw' = FALSE
              /\ currentPath' = Append(currentPath, coords)
              /\ visible' = draw(visible, paths, currentPath', isDrawing, brushSize)
    /\ Event
    /\ lastOp' = "drawMove"
    /\ Elsewhere
    /\ emitted' = <<>>
    /\ Observed
    /\ trail' = trail
    /\ KeepStart
    /\ UNCHANGED <<mounted, imageSrc, pendingLoads, canvas, ctx2d, isDrawing,
                   brushSize, hasStrokes, paths, sinceClear>>

\* stopDrawing putting the new stroke first (unshift for push).
stopDrawing_Prepends ==
  /\ mounted
  /\ IF isDrawing
     THEN /\ isDrawing' = FALSE
          /\ IF Len(currentPath) > 0
             THEN /\ paths' = <<[points |-> currentPath, size |-> brushSize]>>
                                \o paths
                  /\ hasStrokes' = TRUE
                  /\ emitted' = <<TRUE>>
                  /\ sinceClear' = FALSE
             ELSE /\ emitted' = <<>>
                  /\ UNCHANGED <<paths, hasStrokes, sinceClear>>
          /\ currentPath' = <<>>
          /\ visible' = draw(visible, paths', currentPath', isDrawing, brushSize)
     ELSE /\ emitted' = <<>>
          /\ UNCHANGED <<isDrawing, paths, hasStrokes, currentPath, visible,
                         sinceClear>>
  /\ Event
  /\ lastOp' = "stopDrawing"
  /\ Elsewhere
  /\ Observed
  /\ threw' = FALSE
  /\ trail' = NoTrail
  /\ KeepStart
  /\ UNCHANGED <<mounted, imageSrc, pendingLoads, canvas, ctx2d, brushSize>>

\* stopDrawing without the currentPath.current.length > 0 check.
stopDrawing_CommitsEmpty ==
  /\ mounted
  /\ IF isDrawing
     THEN /\ isDrawing' = FALSE
          /\ paths' = Append(paths, [points |-> currentPath,
                                     size |-> brushSize])
          /\ hasStrokes' = TRUE
          /\ emitted' = <<TRUE>>
          /\ sinceClear' = FALSE
          /\ currentPath' = <<>>
          /\ visible' = draw(visible, paths', currentPath', isDrawing, brushSize)
     ELSE /\ emitted' = <<>>
          /\ UNCHANGED <<isDrawing, paths, hasStrokes, currentPath, visible,
                         sinceClear>>
  /\ Event
  /\ lastOp' = "stopDrawing"
  /\ Elsewhere
  /\ Observed
  /\ threw' = FALSE
  /\ trail' = NoTrail
  /\ KeepStart
  /\ UNCHANGED <<mounted, imageSrc, pendingLoads, canvas, ctx2d, brushSize>>

\* stopDrawing without setIsDrawing(false).
stopDrawing_StaysDrawing ==
  /\ mounted
  /\ IF isDrawing
     THEN /\ isDrawing' = isDrawing
          /\ IF Len(currentPath) > 0
             THEN /\ paths' = Append(paths, [points |-> currentPath,
                                             size |-> brushSize])
                  /\ hasStrokes' = TRUE
                  /\ emitted' = <<TRUE>>
                  /\ sinceClear' = FALSE
             ELSE /\ emitted' = <<>>
                  /\ UNCHANGED <<paths, hasStrokes, sinceClear>>
          /\ currentPath' = <<>>
          /\ visible' = draw(visible, paths', currentPath', isDrawing, brushSize)
     ELSE /\ emitted' = <<>>
          /\ UNCHANGED <<isDrawing, paths, hasStrokes, currentPath, visible,
                         sinceClear>>
  /\ Event
  /\ lastOp' = "stopDrawing"
  /\ Elsewhere
  /\ Observed
  /\ threw' = FALSE
  /\ trail' = NoTrail
  /\ KeepStart
  /\ UNCHANGED <<mounted, imageSrc, pendingLoads, canvas, ctx2d, brushSize>>

\* stopDrawing without currentPath.current = [].
stopDrawing_KeepsCurrent ==
  /\ mounted
  /\ IF isDrawing
     THEN /\ isDrawing' = FALSE
          /\ IF Len(currentPath) > 0
             THEN /\ paths' = Append(paths, [points |-> currentPath,
                                             size |-> brushSize])
                  /\ hasStrokes' = TRUE
                  /\ emitted' = <<TRUE>>
                  /\ sinceClear' = FALSE
             ELSE /\ emitted' = <<>>
                  /\ UNCHANGED <<paths, hasStrokes, sinceClear>>
          /\ currentPath' = currentPath
          /\ visible' = draw(visible, paths', currentPath', isDrawing, brushSize)
     ELSE /\ emitted' = <<>>
          /\ UNCHANGED <<isDrawing, paths, hasStrokes, currentPath, visible,
                         sinceClear>>
  /\ Event
  /\ lastOp' = "stopDrawing"
  /\ Elsewhere
  /\ Observed
  /\ threw' = FALSE
  /\ trail' = NoTrail
  /\ KeepStart
  /\ UNCHANGED <<mounted, imageSrc, pendingLoads, canvas, ctx2d, brushSize>>

\* onMouseUp / onMouseLeave / onTouchEnd
stopDrawing ==
  /\ mounted
  /\ IF isDrawing
     THEN /\ isDrawing' = FALSE
          /\ IF Len(currentPath) > 0
             THEN /\ paths' = Append(paths, [points |-> currentPath,
                                             size |-> brushSize])
                  /\ hasStrokes' = TRUE
                  /\ emitted' = <<TRUE>>
                  /\ sinceClear' = FALSE
             ELSE /\ emitted' = <<>>
                  /\ UNCHANGED <<paths, hasStrokes, sinceClear>>
          /\ currentPath' = <<>>
          /\ visible' = draw(visible, paths', currentPath', isDrawing, brushSize)
     ELSE /\ emitted' = <<>>
          /\ UNCHANGED <<isDrawing, paths, hasStrokes, currentPath, visible,
                         sinceClear>>
  /\ Event
  /\ lastOp' = "stopDrawing"
  /\ Elsewhere
  /\ Observed
  /\ threw' = FALSE
  /\ trail' = NoTrail
  /\ KeepStart
  /\ UNCHANGED <<mounted, imageSrc, pendingLoads, canvas, ctx2d, brushSize>>

\* clearMask without currentPath.current = [].
clearMask_KeepsCurrent ==
  /\ mounted
  /\ hasStrokes
  /\ paths' = <<>>
  /\ currentPath' = currentPath
  /\ hasStrokes' = FALSE
  /\ emitted' = <<FALSE>>
  /\ visible' = draw(visible, paths', currentPath', isDrawing, brushSize)
  /\ Event
  /\ lastOp' = "clearMask"
  /\ Elsewhere
  /\ Observed
  /\ threw' = FALSE
  /\ trail' = NoTrail
  /\ KeepStart
  /\ sinceClear' = TRUE
  /\ UNCHANGED <<mounted, imageSrc, pendingLoads, canvas, ctx2d, isDrawing,
                 brushSize>>

\* clearMask without the onMaskChange call.
clearMask_Silent ==
  /\ mounted
  /\ hasStrokes
  /\ paths' = <<>>
  /\ currentPath' = <<>>
  /\ hasStrokes' = FALSE
  /\ emitted' = <<>>
  /\ visible' = draw(visible, paths', currentPath', isDrawing, brushSize)
  /\ Event
  /\ lastOp' = "clearMask"
  /\ Elsewhere
  /\ Observed
  /\ threw' = FALSE
  /\ trail' = NoTrail
  /\ KeepStart
  /\ sinceClear' = TRUE
  /\ UNCHANGED <<mounted, imageSrc, pendingLoads, canvas, ctx2d, isDrawing,
                 brushSize>>

\* clearMask without setHasStrokes(false).
clearMask_KeepsFlag ==
  /\ mounted
  /\ hasStrokes
  /\ paths' = <<>>
  /\ currentPath' = <<>>
  /\ hasStrokes' = hasStrokes
  /\ emitted' = <<FALSE>>
  /\ visible' = draw(visible, paths', currentPath', isDrawing, brushSize)
  /\ Event
  /\ lastOp' = "clearMask"
  /\ Elsewhere
  /\ Observed
  /\ threw' = FALSE
  /\ trail' = NoTrail
  /\ KeepStart
  /\ sinceClear' = TRUE
  /\ UNCHANGED <<mounted, imageSrc, pendingLoads, canvas, ctx2d, isDrawing,
                 brushSize>>

\* The clear button, enabled while hasStrokes.
clearMask ==
  /\ mounted
  /\ hasStrokes
  /\ paths' = <<>>
  /\ currentPath' = <<>>
  /\ hasStrokes' = FALSE
  /\ emitted' = <<FALSE>>
  /\ visible' = draw(visible, paths', currentPath', isDrawing, brushSize)
  /\ Event
  /\ lastOp' = "clearMask"
  /\ Elsewhere
  /\ Observed
  /\ threw' = FALSE
  /\ trail' = NoTrail
  /\ KeepStart
  /\ sinceClear' = TRUE
  /\ UNCHANGED <<mounted, imageSrc, pendingLoads, canvas, ctx2d, isDrawing,
                 brushSize>>

\* The brush-size range input.
setBrushSize ==
  \E b \in BrushSizes \ {brushSize} :
    /\ mounted
    /\ brushSize' = b
    /\ Event
    /\ lastOp' = "setBrushSize"
    /\ Elsewhere
    /\ emitted' = <<>>
    /\ Observed
    /\ threw' = FALSE
    /\ trail' = NoTrail
    /\ KeepStart
    /\ UNCHANGED <<mounted, imageSrc, pendingLoads, canvas, ctx2d, isDrawing,
                   hasStrokes, paths, currentPath, visible, sinceClear>>

\* The parent re-renders the mounted editor with another imageSrc: the
\* effect runs again and starts loading the new image.
setImageSrc ==
  \E src \in Images \ {imageSrc} :
    /\ mounted
    /\ imageSrc' = src
    /\ pendingLoads' = pendingLoads \cup
         {[img |-> src, isDrawing |-> isDrawing, brushSize |-> brushSize]}
    /\ Event
    /\ lastOp' = "setImageSrc"
    /\ Elsewhere
    /\ emitted' = <<>>
    /\ Observed
    /\ threw' = FALSE
    /\ trail' = NoTrail
    /\ KeepStart
    /\ UNCHANGED <<mounted, canvas, ctx2d, isDrawing, brushSize, hasStrokes,
                   paths, currentPath, visible, sinceClear>>

\* img.onload of one of the images being loaded.
imageOnload ==
  \E p \in pendingLoads :
    /\ pendingLoads' = pendingLoads \ {p}
    /\ IF mounted
       THEN /\ canvas' = Natural[p.img]
            \* assigning canvas.width clears the bitmap before draw()
            /\ visible' = draw(<<>>, paths, currentPath, p.isDrawing, p.brushSize)
       ELSE UNCHANGED <<canvas, visible>>
    /\ Event
    /\ lastOp' = "imageOnload"
    /\ Elsewhere
    /\ emitted' = <<>>
    /\ Observed
    /\ threw' = FALSE
    /\ trail' = NoTrail
    /\ KeepStart
    /\ UNCHANGED <<mounted, imageSrc, ctx2d, isDrawing, brushSize, hasStrokes,
                   paths, currentPath, sinceClear>>

\* The parent removes the editor: React clears the refs.
unmount ==
  /\ mounted
  /\ mounted' = FALSE
  /\ Event
  /\ lastOp' = "unmount"
  /\ Elsewhere
  /\ emitted' = <<>>
  /\ Observed
  /\ threw' = FALSE
  /\ trail' = NoTrail
  /\ KeepStart
  /\ UNCHANGED <<imageSrc, pendingLoads, canvas, ctx2d, isDrawing, brushSize,
                 hasStrokes, paths, currentPath, visible, sinceClear>>

\* getMaskBase64 emptying the Stroke List once it has rasterized it.
exportMask_ClearsPaths ==
  /\ exported' = <<getMaskBase64>>
  /\ prevExported' = exported
  /\ sent' = NoRequest
  /\ lastOp' = "getMaskBase64"
  /\ Elsewhere
  /\ emitted' = <<>>
  /\ threw' = FALSE
  /\ paths' = <<>>
  /\ UNCHANGED <<mounted, imageSrc, pendingLoads, canvas, ctx2d, isDrawing,
                 brushSize, hasStrokes, currentPath, visible, trail,
                 brushAtStart, sinceClear, opCount>>

\* getMaskBase64 rasterizing on the on-screen canvas, not an offscreen one.
exportMask_DrawsOnCanvas ==
  /\ exported' = <<getMaskBase64>>
  /\ prevExported' = exported
  /\ sent' = NoRequest
  /\ lastOp' = "getMaskBase64"
  /\ Elsewhere
  /\ emitted' = <<>>
  /\ threw' = FALSE
  /\ visible' = IF exported'[1].null THEN visible ELSE Stroked(paths)
  /\ UNCHANGED <<mounted, imageSrc, pendingLoads, canvas, ctx2d, isDrawing,
                 brushSize, hasStrokes, paths, currentPath, trail,
                 brushAtStart, sinceClear, opCount>>

\* The parent calls getMaskBase64 through the handle.
exportMask ==
  /\ exported' = <<getMaskBase64>>
  /\ prevExported' = exported
  /\ sent' = NoRequest
  /\ lastOp' = "getMaskBase64"
  /\ Elsewhere
  /\ emitted' = <<>>
  /\ threw' = FALSE
  /\ UNCHANGED <<mounted, imageSrc, pendingLoads, canvas, ctx2d, isDrawing,
                 brushSize, hasStrokes, paths, currentPath, visible, trail,
                 brushAtStart, sinceClear, opCount>>

Next ==
  \/ startDrawing
  \/ drawMove
  \/ stopDrawing
  \/ clearMask
  \/ setBrushSize
  \/ setImageSrc
  \/ imageOnload
  \/ unmount
  \/ exportMask

Spec == Init /\ [][Next]_vars

\* ------------------------------------------------ getCoordinates alone
\* getCoordinates as a function of its inputs: the event, the bounding box
\* of the canvas, the canvas size and whether canvasRef.current is set,
\* computed in the arithmetic of JavaScript numbers.
MapRects ==
  Rects \cup
  {[left |-> 16, top |-> 24, width |-> 352, height |-> 264],
   [left |-> 0, top |-> 0, width |-> 312, height |-> 234]}

RasterSizes == {DefaultCanvas} \cup {Natural[i] : i \in Images}

\* The centre of a box (the boxes above have even sides).
Centre(rect) ==
  [clientX |-> rect.left + rect.width \div 2,
   clientY |-> rect.top + rect.height \div 2]

MapEvents(rect) ==
  Events(rect)
  \cup {[kind |-> k, points |-> <<Centre(rect)>>] : k \in {"mouse", "touch"}}

Origin == [x |-> Zero, y |-> Zero]

scaleX(cnv, rect) == fdiv(cnv.width, rect.width)
scaleY(cnv, rect) == fdiv(cnv.height, rect.height)

\* getCoordinatesIEEE using clientX / clientY without the box offset.
getCoordinatesIEEE_NoOffset(e, rect) ==
  IF ~mounted THEN Origin
  ELSE [x |-> fmul(e.points[1].clientX, scaleX(canvas, rect)),
        y |-> fmul(e.points[1].clientY, scaleY(canvas, rect))]

\* getCoordinates on an event that carries a position.
getCoordinatesIEEE(e, rect) ==
  IF ~mounted THEN Origin
  ELSE [x |-> fmul(e.points[1].clientX - rect.left, scaleX(canvas, rect)),
        y |-> fmul(e.points[1].clientY - rect.top, scaleY(canvas, rect))]

\* A canvas of some size, with canvasRef.current set or not; nothing drawn.
InitMapper ==
  /\ mounted \in BOOLEAN
  /\ canvas \in RasterSizes
  /\ imageSrc = "imgA"
  /\ pendingLoads = {}
  /\ ctx2d = TRUE
  /\ isDrawing = FALSE
  /\ brushSize = BrushDefault
  /\ hasStrokes = FALSE
  /\ paths = <<>>
  /\ currentPath = <<>>
  /\ visible = <<>>
  /\ lastOp = "mount"
  /\ emitted = <<>>
  /\ exported = NotCalled
  /\ prevExported = NotCalled
  /\ threw = FALSE
  /\ trail = NoTrail
  /\ brushAtStart = 0
  /\ sinceClear = FALSE
  /\ opCount = 0
  /\ mapIn = <<>>
  /\ mapOut = <<>>
  /\ sent = NoRequest
  /\ ClientIdle
  /\ AppAtRest

\* One call getCoordinates(e) with the canvas displayed in the box rect.
callGetCoordinates ==
  \E rect \in MapRects : \E e \in MapEvents(rect) :
    /\ mapIn' = <<[e |-> e, rect |-> rect]>>
    /\ IF throwsTypeError(e)
       THEN threw' = TRUE /\ mapOut' = <<>>
       ELSE threw' = FALSE /\ mapOut' = <<getCoordinatesIEEE(e, rect)>>
    /\ lastOp' = "getCoordinates"
    /\ UNCHANGED <<mounted, imageSrc, pendingLoads, canvas, ctx2d, isDrawing,
                   brushSize, hasStrokes, paths, currentPath, visible,
                   emitted, exported, prevExported, trail, brushAtStart,
                   sinceClear, opCount, sent>>
    /\ UNCHANGED <<clientVars, appVars>>

NextMapper == callGetCoordinates

SpecMapper == InitMapper /\ [][NextMapper]_vars

\* ------------------------------------------------- getMaskBase64 alone
\* The pixels of a mask. Lengths are in half pixels: the centre of pixel
\* (px, py) is (2 px + 1, 2 py + 1), and a line of width size reaches
\* size half pixels from its centre line.
Abs(n) == IF n < 0 THEN -n ELSE n

\* The centre (qx, qy) lies within size half pixels of the segment from a
\* to b: of a when it projects before a, of b when it projects past b,
\* of the line through them otherwise. This is the segment stroked with
\* lineWidth size, round caps and round joins.
InCapsule(qx, qy, a, b, size) ==
  LET dx == 2 * b.x - 2 * a.x
      dy == 2 * b.y - 2 * a.y
      wx == qx - 2 * a.x
      wy == qy - 2 * a.y
      c1 == wx * dx + wy * dy
      c2 == dx * dx + dy * dy
      cross == dx * wy - dy * wx
  IN IF c1 <= 0 THEN wx * wx + wy * wy <= size * size
     ELSE IF c1 >= c2
     THEN (qx - 2 * b.x) * (qx - 2 * b.x) + (qy - 2 * b.y) * (qy - 2 * b.y)
            <= size * size
     ELSE /\ Abs(cross) <= size * (Abs(dx) + Abs(dy))
          /\ cross * cross <= size * size * c2

\* ctx.stroke() of one path with a fixed lineWidth, not path.size.
Covers_DefaultWidth(stroke, px, py) ==
  \E i \in 1..(Len(stroke.points) - 1) :
    InCapsule(2 * px + 1, 2 * py + 1, stroke.points[i], stroke.points[i + 1],
              BrushDefault)

\* ctx.stroke() of one path (moveTo, lineTo ..., lineWidth = path.size)
\* paints pixel (px, py).
Covers(stroke, px, py) ==
  \E i \in 1..(Len(stroke.points) - 1) :
    InCapsule(2 * px + 1, 2 * py + 1, stroke.points[i], stroke.points[i + 1],
              stroke.size)

\* The colour of a pixel once fillRect has painted it black and the first
\* k strokes were drawn in white, in list order.
RECURSIVE pixelAfter(_, _, _, _)
pixelAfter(strokes, k, px, py) ==
  IF k = 0 THEN "black"
  ELSE IF Covers(strokes[k], px, py) THEN "white"
  ELSE pixelAfter(strokes, k - 1, px, py)

\* The colour of pixel (px, py) of a non-null mask.
pixel(mask, px, py) == pixelAfter(mask.painted, Len(mask.painted), px, py)

\* Stroke Lists handed to getMaskBase64: the stroke of the example, the
\* same line drawn wide, a single point, and a polyline with a corner.
Pt(x, y) == [x |-> x, y |-> y]
ExampleStroke == [points |-> <<Pt(100, 100), Pt(300, 100)>>, size |-> BrushDefault]
RasterStrokes ==
  {ExampleStroke,
   [points |-> <<Pt(100, 100), Pt(300, 100)>>, size |-> BrushMax],
   [points |-> <<Pt(200, 60)>>, size |-> BrushDefault],
   [points |-> <<Pt(100, 100), Pt(100, 200), Pt(200, 200)>>, size |-> BrushMin],
   [points |-> <<Pt(150, 50), Pt(250, 150)>>, size |-> BrushDefault]}

StrokeLists == UNION {[1..n -> RasterStrokes] : n \in 0..MaxStrokes}

\* The pixels looked at: around the ends and the edges of the example's
\* band, along it, and above it.
SampleX == (87..92) \cup {100, 150, 200, 250, 299} \cup (307..311)
SampleY == {60} \cup (88..92) \cup {100} \cup (107..111) \cup {150, 200}
Inside(mask) ==
  {q \in SampleX \X SampleY : q[1] < mask.width /\ q[2] < mask.height}

\* A mounted editor holding some Stroke List, its image loaded or not.
InitRaster ==
  /\ mounted = TRUE
  /\ canvas \in RasterSizes
  /\ imageSrc = "imgA"
  /\ pendingLoads = {}
  /\ ctx2d = TRUE
  /\ isDrawing = FALSE
  /\ brushSize = BrushDefault
  /\ paths \in StrokeLists
  /\ hasStrokes = (paths # <<>>)
  /\ currentPath = <<>>
  /\ visible = Stroked(paths)
  /\ lastOp = "mount"
  /\ emitted = <<>>
  /\ exported = NotCalled
  /\ prevExported = NotCalled
  /\ threw = FALSE
  /\ trail = NoTrail
  /\ brushAtStart = 0
  /\ sinceClear = FALSE
  /\ opCount = 0
  /\ mapIn = <<>>
  /\ mapOut = <<>>
  /\ sent = NoRequest
  /\ ClientIdle
  /\ AppAtRest

NextRaster == exportMask

SpecRaster == InitRaster /\ [][NextRaster]_vars

\* ------------------------------------------------ the editor's callers
\* The editor together with the code that calls its getMaskBase64: the
\* App, which shows an editor on the source image while isMaskingMode, and
\* ResultDisplay, which shows one on the selected result while isMasking.
\* An optional argument is <<>> when it is left out and <<value>> when it
\* is given.
\* A mask made by the other editor, passed on to the App by ResultDisplay.
OtherMask == [null |-> FALSE, width |-> 1024, height |-> 1024, painted |-> <<>>]

\* The (overrideSourceBase64, overrideMaskBase64) pairs performGeneration
\* is called with: by handleGenerate and a global handleRefine, by
\* handleUpscale, and by a masked handleRefine.
Overrides ==
  {[source |-> <<>>, mask |-> <<>>],
   [source |-> <<"generated">>, mask |-> <<>>],
   [source |-> <<"generated">>, mask |-> <<OtherMask>>]}

RefineInputs == {"", "  ", "lighter floor"}
trim(text) == IF text = "  " THEN "" ELSE text

\* App.performGeneration, "Determine Mask", keeping a null of the editor.
maskToSend_KeepsNull(overrideSource, overrideMask, isMaskingMode, editorMask) ==
  IF overrideMask # <<>> THEN overrideMask
  ELSE IF isMaskingMode /\ overrideSource = <<>> THEN <<editorMask>>
  ELSE <<>>

\* App.performGeneration, "Determine Mask", asking the editor for its mask
\* whenever isMaskingMode.
maskToSend_IgnoresSource(overrideSource, overrideMask, isMaskingMode, editorMask) ==
  IF overrideMask # <<>> THEN overrideMask
  ELSE IF isMaskingMode
  THEN IF editorMask.null THEN <<>> ELSE <<editorMask>>
  ELSE <<>>

\* App.performGeneration, "Determine Mask": the maskBase64 handed to
\* generateRenderedImage; editorMask is what
\* maskEditorRef.current?.getMaskBase64() yields.
maskToSend(overrideSource, overrideMask, isMaskingMode, editorMask) ==
  IF overrideMask # <<>> THEN overrideMask
  ELSE IF isMaskingMode /\ overrideSource = <<>>
  THEN IF editorMask.null THEN <<>> ELSE <<editorMask>>
  ELSE <<>>

\* App.performGeneration up to its call of generateRenderedImage. The
\* App's editor is mounted only while isMaskingMode.
performGeneration ==
  \E o \in Overrides : \E isMaskingMode \in BOOLEAN :
    /\ mounted => isMaskingMode
    /\ sent' = <<[caller |-> "performGeneration",
                  issued |-> TRUE,
                  masking |-> isMaskingMode,
                  overrideSource |-> o.source,
                  overrideMask |-> o.mask,
                  source |-> IF o.source # <<>> THEN o.source
                             ELSE <<"sourceImage">>,
                  mask |-> maskToSend(o.source, o.mask, isMaskingMode,
                                      getMaskBase64)]>>
    /\ lastOp' = "performGeneration"
    /\ exported' = NotCalled /\ prevExported' = NotCalled
    /\ emitted' = <<>>
    /\ threw' = FALSE
    /\ Elsewhere
    /\ UNCHANGED <<mounted, imageSrc, pendingLoads, canvas, ctx2d, isDrawing,
                   brushSize, hasStrokes, paths, currentPath, visible, trail,
                   brushAtStart, sinceClear, opCount>>

\* ResultDisplay.handleRefineSubmit: the onRefine call it makes, if any.
\* ResultDisplay's editor is mounted only while isMasking.
handleRefineSubmit ==
  \E refineInput \in RefineInputs : \E isMasking \in BOOLEAN :
    /\ mounted => isMasking
    /\ LET masked == isMasking /\ mounted /\ ~getMaskBase64.null IN
       sent' = <<[caller |-> "handleRefineSubmit",
                  issued |-> trim(refineInput) # "",
                  masking |-> isMasking,
                  overrideSource |-> <<>>,
                  overrideMask |-> <<>>,
                  source |-> IF trim(refineInput) # "" /\ masked
                             THEN <<"generated">> ELSE <<>>,
                  mask |-> IF trim(refineInput) # "" /\ masked
                           THEN <<getMaskBase64>> ELSE <<>>]>>
    /\ lastOp' = "handleRefineSubmit"
    /\ exported' = NotCalled /\ prevExported' = NotCalled
    /\ emitted' = <<>>
    /\ threw' = FALSE
    /\ Elsewhere
    /\ UNCHANGED <<mounted, imageSrc, pendingLoads, canvas, ctx2d, isDrawing,
                   brushSize, hasStrokes, paths, currentPath, visible, trail,
                   brushAtStart, sinceClear, opCount>>

NextCallers ==
  \/ Next
  \/ performGeneration
  \/ handleRefineSubmit

SpecCallers == Init /\ [][NextCallers]_vars

\* ------------------------------------------------ the generation client
\* src/services/geminiService.ts: analyzeInteriorImage and
\* generateRenderedImage (with generateSingleImage and tryGenerate), each
\* as the steps it takes between its awaits. An error is the object a
\* rejected call carries: the words of its message, its status and its
\* code (0 where the object has none).
maxAttempts == 3

NoError == [message |-> <<>>, status |-> 0, code |-> 0]
Error(words) == [message |-> words, status |-> 0, code |-> 0]

ApiErrors ==
  {[message |-> <<"got", "503", "UNAVAILABLE">>, status |-> 0, code |-> 0],
   [message |-> <<"overloaded">>, status |-> 503, code |-> 0],
   [message |-> <<"server", "error">>, status |-> 500, code |-> 0],
   [message |-> <<"server", "error">>, status |-> 0, code |-> 500],
   [message |-> <<"Internal error">>, status |-> 0, code |-> 0],
   [message |-> <<"quota", "exceeded">>, status |-> 429, code |-> 0],
   [message |-> <<"permission", "denied">>, status |-> 403, code |-> 403]}

\* String.prototype.includes on a message.
includes(message, word) == \E i \in DOMAIN message : message[i] = word

isTransient(error) ==
  \/ includes(error.message, "503")
  \/ error.status = 503
  \/ error.status = 500
  \/ error.code = 500
  \/ includes(error.message, "Internal error")

\* handleApiError: the Error it throws (it returns on no path).
handleApiError(error, context) ==
  LET has(word) == includes(error.message, word) IN
  Error(<<context, "failed">> \o
        (IF has("403") \/ error.status = 403 \/ error.code = 403
         THEN <<"403">>
         ELSE IF has("404") \/ error.status = 404 \/ error.code = 404
         THEN <<"404">>
         ELSE IF has("429") \/ error.status = 429
         THEN <<"429">>
         ELSE IF has("503") \/ error.status = 503
         THEN <<"503">>
         ELSE IF has("500") \/ error.status = 500 \/ error.code = 500
         THEN <<"500">>
         ELSE error.message))

\* What a generateContent call settles with: a response or a rejection.
Texts == {"", "  ", " warm oak floor ", "warm oak floor"}
trimText(text) ==
  IF text = "  " THEN ""
  ELSE IF text = " warm oak floor " THEN "warm oak floor"
  ELSE text

Response(kind, text, data) ==
  [kind |-> kind, text |-> text, data |-> data, error |-> NoError]
Rejection(error) ==
  [kind |-> "rejected", text |-> "", data |-> "", error |-> error]

AnalysisResponses ==
  {Response("text", t, "") : t \in Texts}
  \cup {Rejection(e) : e \in ApiErrors}

\* A response with an image part, one whose image part has no data, one with
\* parts but no image among them, and one with no candidates.
ImageResponses ==
  {Response("image", "", "renderedPng"),
   Response("image", "", ""),
   Response("textOnly", "cannot render", ""),
   Response("noParts", "", "")}
  \cup {Rejection(e) : e \in ApiErrors}

\* What a function ends with.
Returned(value) == [threw |-> FALSE, value |-> value, error |-> NoError]
Threw(error) == [threw |-> TRUE, value |-> "", error |-> error]

\* The arguments: the resolution, the optional maskBase64 (<<>> when left
\* out) and whether getApiKey() yields a key.
Resolutions == {"2K", "4K"}
MaskArgs == {<<>>, <<"">>, <<"maskPng">>}
truthy(optional) == optional # <<>> /\ optional[1] # ""

TextPart(prompt) == [kind |-> "text", data |-> prompt]
InlineData(data) == [kind |-> "inlineData", data |-> data]

\* tryGenerate testing the resolution alone for the upscale mode.
tryGenerateRequest_UpscaleAt4K(model, imageSize, resolution, maskBase64) ==
  [model |-> model, imageSize |-> imageSize,
   parts |->
     IF resolution = "4K"
     THEN <<TextPart("upscale"), InlineData("base64Source")>>
     ELSE IF truthy(maskBase64)
     THEN <<TextPart("inpainting"), InlineData("base64Source"),
            InlineData(maskBase64[1])>>
     ELSE <<TextPart("standard"), InlineData("base64Source")>>]

\* tryGenerate up to its generateContent call: the request it sends.
tryGenerateRequest(model, imageSize, resolution, maskBase64) ==
  [model |-> model, imageSize |-> imageSize,
   parts |->
     IF resolution = "4K" /\ ~truthy(maskBase64)
     THEN <<TextPart("upscale"), InlineData("base64Source")>>
     ELSE IF truthy(maskBase64)
     THEN <<TextPart("inpainting"), InlineData("base64Source"),
            InlineData(maskBase64[1])>>
     ELSE <<TextPart("standard"), InlineData("base64Source")>>]

\* tryGenerate after its generateContent call.
tryGenerateResult(resp) ==
  IF resp.kind = "rejected" THEN Threw(resp.error)
  ELSE IF resp.kind = "noParts" THEN Threw(Error(<<"no", "content">>))
  ELSE IF resp.kind = "image" /\ resp.data # "" THEN Returned(resp.data)
  ELSE Threw(Error(<<"no", "image", "data">>))

analysisRequest(model) ==
  [model |-> model, imageSize |-> "",
   parts |-> <<TextPart("analysis"), InlineData("base64Image")>>]

analysisResult(resp) ==
  IF resp.kind = "rejected" THEN Threw(resp.error)
  ELSE Returned(IF resp.text # "" THEN trimText(resp.text)
                ELSE "no analysis result")

Ends(pc, result) == clientPc' = pc /\ clientResult' = <<result>>

\* The head of the while loop of generateSingleImage and its try block up
\* to the await.
generateLoop(args) ==
  IF attempts' < maxAttempts
  THEN /\ modelCalls' =
            Append(modelCalls,
                   tryGenerateRequest("gemini-3-pro-image-preview",
                                      args.resolution, args.resolution,
                                      args.mask))
       /\ clientPc' = "primary"
       /\ clientResult' = <<>>
  ELSE /\ Ends("afterLoop", Returned(""))
       /\ UNCHANGED modelCalls

\* generateRenderedImage is called.
generateRenderedImage ==
  \E resolution \in Resolutions : \E mask \in MaskArgs : \E key \in BOOLEAN :
    /\ clientPc = "idle"
    /\ clientFn' = "generateRenderedImage"
    /\ clientArgs' = [resolution |-> resolution, mask |-> mask, apiKey |-> key]
    /\ attempts' = 0
    /\ IF ~key
       THEN /\ Ends("threw", Threw(Error(<<"no", "API", "key">>)))
            /\ UNCHANGED modelCalls
       ELSE generateLoop(clientArgs')
    /\ UNCHANGED responses
    /\ UNCHANGED <<editorVars, appVars>>

\* generateSingleImage retrying after every error of the primary model.
generatePrimarySettled_RetriesAll ==
  \E resp \in ImageResponses :
    /\ clientFn = "generateRenderedImage" /\ clientPc = "primary"
    /\ responses' = Append(responses, resp)
    /\ LET r == tryGenerateResult(resp) IN
       IF ~r.threw
       THEN /\ Ends("returned", r)
            /\ UNCHANGED <<attempts, modelCalls>>
       ELSE IF attempts < maxAttempts - 1
       THEN /\ attempts' = attempts + 1
            /\ clientPc' = "delay"
            /\ UNCHANGED <<modelCalls, clientResult>>
       ELSE IF isTransient(r.error)
       THEN /\ modelCalls' =
                 Append(modelCalls,
                        tryGenerateRequest("gemini-2.5-flash-image", "",
                                           clientArgs.resolution,
                                           clientArgs.mask))
            /\ clientPc' = "fallback"
            /\ UNCHANGED <<attempts, clientResult>>
       ELSE /\ Ends("threw", r)
            /\ UNCHANGED <<attempts, modelCalls>>
    /\ UNCHANGED <<clientFn, clientArgs>>
    /\ UNCHANGED <<editorVars, appVars>>

\* The call of the primary image model has settled: the rest of the try
\* block, or the catch block up to its await.
generatePrimarySettled ==
  \E resp \in ImageResponses :
    /\ clientFn = "generateRenderedImage" /\ clientPc = "primary"
    /\ responses' = Append(responses, resp)
    /\ LET r == tryGenerateResult(resp) IN
       IF ~r.threw
       THEN /\ Ends("returned", r)
            /\ UNCHANGED <<attempts, modelCalls>>
       ELSE IF isTransient(r.error) /\ attempts < maxAttempts - 1
       THEN /\ attempts' = attempts + 1
            /\ clientPc' = "delay"
            /\ UNCHANGED <<modelCalls, clientResult>>
       ELSE IF isTransient(r.error)
       THEN /\ modelCalls' =
                 Append(modelCalls,
                        tryGenerateRequest("gemini-2.5-flash-image", "",
                                           clientArgs.resolution,
                                           clientArgs.mask))
            /\ clientPc' = "fallback"
            /\ UNCHANGED <<attempts, clientResult>>
       ELSE /\ Ends("threw", r)
            /\ UNCHANGED <<attempts, modelCalls>>
    /\ UNCHANGED <<clientFn, clientArgs>>
    /\ UNCHANGED <<editorVars, appVars>>

\* await delay(2000 * attempts) is over: continue.
generateDelayElapsed ==
  /\ clientFn = "generateRenderedImage" /\ clientPc = "delay"
  /\ attempts' = attempts
  /\ generateLoop(clientArgs)
  /\ UNCHANGED <<clientFn, clientArgs, responses>>
  /\ UNCHANGED <<editorVars, appVars>>

\* The call of the fallback image model has settled.
generateFallbackSettled ==
  \E resp \in ImageResponses :
    /\ clientFn = "generateRenderedImage" /\ clientPc = "fallback"
    /\ responses' = Append(responses, resp)
    /\ LET r == tryGenerateResult(resp) IN
       IF ~r.threw
       THEN Ends("returned", r)
       ELSE Ends("threw", Threw(handleApiError(r.error, "render fallback")))
    /\ UNCHANGED <<clientFn, clientArgs, attempts, modelCalls>>
    /\ UNCHANGED <<editorVars, appVars>>

\* The head of the while loop of analyzeInteriorImage and its try block up
\* to the await.
analyzeLoop ==
  IF attempts' < maxAttempts
  THEN /\ modelCalls' = Append(modelCalls,
                               analysisRequest("gemini-3-pro-preview"))
       /\ clientPc' = "primary"
       /\ clientResult' = <<>>
  ELSE /\ Ends("afterLoop", Returned(""))
       /\ UNCHANGED modelCalls

\* analyzeInteriorImage is called.
analyzeInteriorImage ==
  \E key \in BOOLEAN :
    /\ clientPc = "idle"
    /\ clientFn' = "analyzeInteriorImage"
    /\ clientArgs' = [NoArgs EXCEPT !.apiKey = key]
    /\ attempts' = 0
    /\ IF ~key
       THEN /\ Ends("threw", Threw(Error(<<"no", "API", "key">>)))
            /\ UNCHANGED modelCalls
       ELSE analyzeLoop
    /\ UNCHANGED responses
    /\ UNCHANGED <<editorVars, appVars>>

\* analyzeInteriorImage retrying while attempts < maxAttempts.
analyzePrimarySettled_RetriesOnceMore ==
  \E resp \in AnalysisResponses :
    /\ clientFn = "analyzeInteriorImage" /\ clientPc = "primary"
    /\ responses' = Append(responses, resp)
    /\ LET r == analysisResult(resp) IN
       IF ~r.threw
       THEN /\ Ends("returned", r)
            /\ UNCHANGED <<attempts, modelCalls>>
       ELSE IF isTransient(r.error) /\ attempts < maxAttempts
       THEN /\ attempts' = attempts + 1
            /\ clientPc' = "delay"
            /\ UNCHANGED <<modelCalls, clientResult>>
       ELSE IF isTransient(r.error)
       THEN /\ modelCalls' = Append(modelCalls,
                                    analysisRequest("gemini-2.5-flash"))
            /\ clientPc' = "fallback"
            /\ UNCHANGED <<attempts, clientResult>>
       ELSE /\ Ends("threw", Threw(handleApiError(r.error, "analysis")))
            /\ UNCHANGED <<attempts, modelCalls>>
    /\ UNCHANGED <<clientFn, clientArgs>>
    /\ UNCHANGED <<editorVars, appVars>>

\* The call of the primary model has settled.
analyzePrimarySettled ==
  \E resp \in AnalysisResponses :
    /\ clientFn = "analyzeInteriorImage" /\ clientPc = "primary"
    /\ responses' = Append(responses, resp)
    /\ LET r == analysisResult(resp) IN
       IF ~r.threw
       THEN /\ Ends("returned", r)
            /\ UNCHANGED <<attempts, modelCalls>>
       ELSE IF isTransient(r.error) /\ attempts < maxAttempts - 1
       THEN /\ attempts' = attempts + 1
            /\ clientPc' = "delay"
            /\ UNCHANGED <<modelCalls, clientResult>>
       ELSE IF isTransient(r.error)
       THEN /\ modelCalls' = Append(modelCalls,
                                    analysisRequest("gemini-2.5-flash"))
            /\ clientPc' = "fallback"
            /\ UNCHANGED <<attempts, clientResult>>
       ELSE /\ Ends("threw", Threw(handleApiError(r.error, "analysis")))
            /\ UNCHANGED <<attempts, modelCalls>>
    /\ UNCHANGED <<clientFn, clientArgs>>
    /\ UNCHANGED <<editorVars, appVars>>

\* await delay(2000 * attempts) is over: continue.
analyzeDelayElapsed ==
  /\ clientFn = "analyzeInteriorImage" /\ clientPc = "delay"
  /\ attempts' = attempts
  /\ analyzeLoop
  /\ UNCHANGED <<clientFn, clientArgs, responses>>
  /\ UNCHANGED <<editorVars, appVars>>

\* The call of the fallback model has settled.
analyzeFallbackSettled ==
  \E resp \in AnalysisResponses :
    /\ clientFn = "analyzeInteriorImage" /\ clientPc = "fallback"
    /\ responses' = Append(responses, resp)
    /\ LET r == analysisResult(resp) IN
       IF ~r.threw
       THEN Ends("returned", r)
       ELSE Ends("threw",
                 Threw(handleApiError(r.error, "analysis fallback")))
    /\ UNCHANGED <<clientFn, clientArgs, attempts, modelCalls>>
    /\ UNCHANGED <<editorVars, appVars>>

\* No call has been made; the editor is not in use.
InitClient ==
  /\ Init
  /\ imageSrc = "imgA"
  /\ ctx2d = TRUE

NextClient ==
  \/ generateRenderedImage
  \/ generatePrimarySettled
  \/ generateDelayElapsed
  \/ generateFallbackSettled
  \/ analyzeInteriorImage
  \/ analyzePrimarySettled
  \/ analyzeDelayElapsed
  \/ analyzeFallbackSettled

SpecClient == InitClient /\ [][NextClient]_vars

\* A pending generateContent call settles and a timer fires: no step of a
\* call that is under way is put off forever.
SpecClientLive == SpecClient /\ WF_vars(NextClient)

\* ------------------------------------------------------ the application
\* src/App.tsx with the ResultDisplay it shows: the application state
\* machine, the render history and the calls of the generation client,
\* which settle at any later time. One action is one handler (or the rest
\* of an async handler after its await) followed by the re-render and the
\* effects React runs before the next event. A prompt is the sequence of
\* its pieces, "" being <<>>; null is <<>> and a string s is <<s>> where a
\* value may be null.
SourceImages == {"imgA", "emptyFile"}
\* ImageFile.base64: the part of the data URL after the comma.
base64Of(image) == IF image = "emptyFile" THEN <<"">> ELSE <<image>>

TypedPrompts == {<<>>, <<"scandinavian">>}
templatePrompt == <<"template">>
promptOf(text) == IF text = "" THEN <<>> ELSE <<text>>
ImageData == {"png1", "png2"}
FailureMessages == {"", "quota exceeded"}
Tabs == {"generated", "original", "split"}
\* What an editor's getMaskBase64 may return.
EditorMasks == {NoMask, OtherMask}

PromptEditorShown(a) ==
  /\ a.sourceImage # "none"
  /\ a.appState \in {"READY_TO_GENERATE", "GENERATING", "COMPLETE"}

ResultDisplayShown(a) ==
  /\ a.appState \notin {"IDLE", "IMAGE_LOADED"}
  /\ ~(a.appState = "ANALYZING" /\ Len(a.renderHistory) = 0)
  /\ ~(a.appState = "GENERATING" /\ Len(a.renderHistory) = 0)
  /\ Len(a.renderHistory) > 0
  /\ a.sourceImage # "none"

\* What the App's MaskEditor, shown while isMaskingMode outside of
\* ANALYZING, yields through maskEditorRef.current?.getMaskBase64().
AppEditorMasks(a) ==
  IF a.sourceImage # "none" /\ a.isMaskingMode /\ a.appState # "ANALYZING"
  THEN EditorMasks
  ELSE {NoMask}

currentHistoryItem == app.renderHistory[resultDisplay.selectedHistoryIndex + 1]
currentGeneratedBase64 == currentHistoryItem.imageUrl

\* ResultDisplay as it mounts.
Mounted(a) ==
  [shown |-> TRUE, selectedHistoryIndex |-> Len(a.renderHistory) - 1,
   isMasking |-> FALSE, activeTab |-> "generated"]

\* The effect of ResultDisplay on [history.length], leaving isMasking on.
Render_KeepsMasking(a, rd) ==
  IF ~ResultDisplayShown(a) THEN NotShown
  ELSE IF ~resultDisplay.shown THEN Mounted(a)
  ELSE IF Len(a.renderHistory) # Len(app.renderHistory)
          /\ Len(a.renderHistory) > 0
  THEN [rd EXCEPT !.selectedHistoryIndex = Len(a.renderHistory) - 1]
  ELSE rd

\* The re-render with the new state a of App, rd being the state the
\* handler left ResultDisplay in: ResultDisplay is mounted, unmounted or
\* kept, and its effect on [history.length] runs.
Render(a, rd) ==
  IF ~ResultDisplayShown(a) THEN NotShown
  ELSE IF ~resultDisplay.shown THEN Mounted(a)
  ELSE IF Len(a.renderHistory) # Len(app.renderHistory)
          /\ Len(a.renderHistory) > 0
  THEN [rd EXCEPT !.selectedHistoryIndex = Len(a.renderHistory) - 1,
                  !.isMasking = FALSE]
  ELSE rd

Op(name, call) == appOp' = [name |-> name, call |-> call]
Remove(seq, i) == SubSeq(seq, 1, i - 1) \o SubSeq(seq, i + 1, Len(seq))
CanRequest == Len(app.renderHistory) + Len(inFlight) < MaxHistory

Call(kind, caller, prompt, resolution, source, mask) ==
  [kind |-> kind, caller |-> caller, prompt |-> prompt,
   resolution |-> resolution, source |-> source, mask |-> mask,
   historyBefore |-> app.renderHistory, superseded |-> FALSE]

\* The pending calls once the session they were made in is over: no
\* handler cancels them, superseded only marks that the source image they
\* were made for has been replaced or dropped.
Supersede(calls) ==
  [i \in DOMAIN calls |-> [calls[i] EXCEPT !.superseded = TRUE]]

\* performGeneration up to its await, called by the handler caller that
\* leaves App in state a.
startGeneration(a, caller, promptToUse, resolution, overrideSource, overrideMask, editorMask) ==
  IF a.sourceImage = "none" /\ ~truthy(overrideSource)
  THEN /\ app' = a
       /\ Op(caller, <<>>)
       /\ UNCHANGED inFlight
  ELSE LET base64Input == IF truthy(overrideSource) THEN overrideSource
                          ELSE base64Of(a.sourceImage)
           call == Call("generate", caller, promptToUse, resolution,
                        base64Input,
                        maskToSend(overrideSource, overrideMask,
                                   a.isMaskingMode, editorMask))
       IN /\ app' = [a EXCEPT !.appState = "GENERATING", !.errorMsg = <<>>]
          /\ IF ~truthy(base64Input)
             THEN Op(caller, <<>>) /\ UNCHANGED inFlight
             ELSE Op(caller, <<call>>) /\ inFlight' = Append(inFlight, call)

\* UploadArea, shown while there is no source image.
handleImageSelected ==
  \E image \in SourceImages :
    /\ app.sourceImage = "none"
    /\ app' = [app EXCEPT !.sourceImage = image, !.errorMsg = <<>>,
                          !.renderHistory = <<>>, !.analysisPrompt = <<>>,
                          !.isMaskingMode = FALSE,
                          !.appState = "IMAGE_LOADED"]
    /\ resultDisplay' = Render(app', resultDisplay)
    /\ Op("handleImageSelected", <<>>)
    /\ inFlight' = Supersede(inFlight)
    /\ UNCHANGED <<editorVars, clientVars>>

\* ActionSelector's analyse button and PromptEditor's re-analyse button.
handleStartAnalysis ==
  /\ \/ app.sourceImage # "none" /\ app.appState = "IMAGE_LOADED"
     \/ PromptEditorShown(app) /\ app.appState # "GENERATING"
  /\ CanRequest
  /\ app' = [app EXCEPT !.appState = "ANALYZING"]
  /\ LET call == Call("analyze", "handleStartAnalysis", <<>>, "2K",
                      base64Of(app.sourceImage), <<>>)
     IN Op("handleStartAnalysis", <<call>>)
        /\ inFlight' = Append(inFlight, call)
  /\ resultDisplay' = Render(app', resultDisplay)
  /\ UNCHANGED <<editorVars, clientVars>>

\* handleStartAnalysis after its await, analyzeInteriorImage having
\* returned a text.
analysisResolved ==
  \E i \in 1..Len(inFlight) : \E text \in {"", "warm oak floor"} :
    /\ inFlight[i].kind = "analyze"
    /\ app' = [app EXCEPT !.analysisPrompt = promptOf(text),
                          !.appState = "READY_TO_GENERATE"]
    /\ inFlight' = Remove(inFlight, i)
    /\ resultDisplay' = Render(app', resultDisplay)
    /\ Op("analysisResolved", <<inFlight[i]>>)
    /\ UNCHANGED <<editorVars, clientVars>>

\* handleStartAnalysis after its await, analyzeInteriorImage having thrown.
analysisRejected ==
  \E i \in 1..Len(inFlight) : \E message \in FailureMessages :
    /\ inFlight[i].kind = "analyze"
    /\ app' = [app EXCEPT
                 !.errorMsg = <<IF message # "" THEN message
                                ELSE "analysis failed">>,
                 !.appState = "ERROR"]
    /\ inFlight' = Remove(inFlight, i)
    /\ resultDisplay' = Render(app', resultDisplay)
    /\ Op("analysisRejected", <<inFlight[i]>>)
    /\ UNCHANGED <<editorVars, clientVars>>

\* ActionSelector's partial-edit button.
handlePartialEdit ==
  /\ app.sourceImage # "none" /\ app.appState = "IMAGE_LOADED"
  /\ app' = [app EXCEPT !.isMaskingMode = TRUE,
                        !.analysisPrompt = templatePrompt,
                        !.appState = "READY_TO_GENERATE"]
  /\ resultDisplay' = Render(app', resultDisplay)
  /\ Op("handlePartialEdit", <<>>)
  /\ UNCHANGED inFlight
  /\ UNCHANGED <<editorVars, clientVars>>

\* PromptEditor's textarea.
setAnalysisPrompt ==
  \E prompt \in TypedPrompts \ {app.analysisPrompt} :
    /\ PromptEditorShown(app)
    /\ app' = [app EXCEPT !.analysisPrompt = prompt]
    /\ resultDisplay' = Render(app', resultDisplay)
    /\ Op("setAnalysisPrompt", <<>>)
    /\ UNCHANGED inFlight
    /\ UNCHANGED <<editorVars, clientVars>>

\* PromptEditor's generate button, enabled unless generating or the prompt
\* is empty.
handleGenerate ==
  \E editorMask \in AppEditorMasks(app) :
    /\ PromptEditorShown(app)
    /\ app.appState # "GENERATING" /\ app.analysisPrompt # <<>>
    /\ CanRequest
    /\ startGeneration(app, "handleGenerate", app.analysisPrompt, "2K",
                       <<>>, <<>>, editorMask)
    /\ resultDisplay' = Render(app', resultDisplay)
    /\ UNCHANGED <<editorVars, clientVars>>

\* ResultDisplay's refine button and Enter key: handleRefineSubmit and the
\* handleRefine of App it calls through onRefine. resultMask is what the
\* editor ResultDisplay shows while isMasking yields.
handleRefine ==
  \E refineInput \in RefineInputs : \E resultMask \in EditorMasks :
  \E editorMask \in AppEditorMasks(app) :
    /\ resultDisplay.shown /\ app.appState # "GENERATING"
    /\ ~resultDisplay.isMasking => resultMask = NoMask
    /\ CanRequest
    /\ IF trim(refineInput) = ""
       THEN /\ Op("handleRefine", <<>>)
            /\ UNCHANGED <<app, inFlight>>
       ELSE IF resultDisplay.isMasking /\ ~resultMask.null
       THEN startGeneration(app, "handleRefine",
                            <<"masked edit", refineInput>>, "2K",
                            <<currentGeneratedBase64>>, <<resultMask>>,
                            editorMask)
       ELSE /\ Len(app.analysisPrompt) + 2 <= MaxPrompt
            /\ LET newPrompt == app.analysisPrompt \o <<"refine", refineInput>>
               IN startGeneration([app EXCEPT !.analysisPrompt = newPrompt],
                                  "handleRefine", newPrompt, "2K",
                                  <<>>, <<>>, editorMask)
    /\ resultDisplay' = Render(app', resultDisplay)
    /\ UNCHANGED <<editorVars, clientVars>>

\* ResultDisplay's 4K button, shown for a 2K item outside of mask mode
\* while nothing is generating.
handleUpscale ==
  \E editorMask \in AppEditorMasks(app) :
    /\ resultDisplay.shown /\ app.appState # "GENERATING"
    /\ ~resultDisplay.isMasking
    /\ currentHistoryItem.resolution # "4K"
    /\ CanRequest
    /\ startGeneration(app, "handleUpscale", app.analysisPrompt, "4K",
                       <<currentGeneratedBase64>>, <<>>, editorMask)
    /\ resultDisplay' = Render(app', resultDisplay)
    /\ UNCHANGED <<editorVars, clientVars>>

\* performGeneration after its await dropping the item it was given.
generationResolved_Replaces ==
  \E i \in 1..Len(inFlight) : \E data \in ImageData :
    /\ inFlight[i].kind = "generate"
    /\ app' = [app EXCEPT
                 !.renderHistory =
                   <<[imageUrl |-> data, prompt |-> inFlight[i].prompt,
                      resolution |-> inFlight[i].resolution]>>,
                 !.appState = "COMPLETE"]
    /\ inFlight' = Remove(inFlight, i)
    /\ resultDisplay' = Render(app', resultDisplay)
    /\ Op("generationResolved", <<inFlight[i]>>)
    /\ UNCHANGED <<editorVars, clientVars>>

\* performGeneration after its await, generateRenderedImage having
\* returned an image.
generationResolved ==
  \E i \in 1..Len(inFlight) : \E data \in ImageData :
    /\ inFlight[i].kind = "generate"
    /\ app' = [app EXCEPT
                 !.renderHistory =
                   Append(@, [imageUrl |-> data,
                              prompt |-> inFlight[i].prompt,
                              resolution |-> inFlight[i].resolution]),
                 !.appState = "COMPLETE"]
    /\ inFlight' = Remove(inFlight, i)
    /\ resultDisplay' = Render(app', resultDisplay)
    /\ Op("generationResolved", <<inFlight[i]>>)
    /\ UNCHANGED <<editorVars, clientVars>>

\* performGeneration after its await, generateRenderedImage having thrown.
generationRejected ==
  \E i \in 1..Len(inFlight) : \E message \in FailureMessages :
    /\ inFlight[i].kind = "generate"
    /\ app' = [app EXCEPT
                 !.errorMsg = <<IF message # "" THEN message
                                ELSE "generation failed">>,
                 !.appState = "READY_TO_GENERATE"]
    /\ inFlight' = Remove(inFlight, i)
    /\ resultDisplay' = Render(app', resultDisplay)
    /\ Op("generationRejected", <<inFlight[i]>>)
    /\ UNCHANGED <<editorVars, clientVars>>

\* handleReset leaving the render history as it is.
handleReset_KeepsHistory ==
  /\ \/ /\ app.sourceImage # "none"
        /\ ~(app.isMaskingMode /\ app.appState # "ANALYZING")
        /\ app.appState # "GENERATING"
     \/ resultDisplay.shown
  /\ app' = [app EXCEPT !.sourceImage = "none", !.analysisPrompt = <<>>,
                        !.appState = "IDLE",
                        !.isMaskingMode = FALSE, !.errorMsg = <<>>]
  /\ resultDisplay' = Render(app', resultDisplay)
  /\ Op("handleReset", <<>>)
  /\ inFlight' = Supersede(inFlight)
  /\ UNCHANGED <<editorVars, clientVars>>

\* The change button under the source image (shown outside of the editor,
\* disabled while GENERATING) and the close button of ResultDisplay.
handleReset ==
  /\ \/ /\ app.sourceImage # "none"
        /\ ~(app.isMaskingMode /\ app.appState # "ANALYZING")
        /\ app.appState # "GENERATING"
     \/ resultDisplay.shown
  /\ app' = [app EXCEPT !.sourceImage = "none", !.analysisPrompt = <<>>,
                        !.renderHistory = <<>>, !.appState = "IDLE",
                        !.isMaskingMode = FALSE, !.errorMsg = <<>>]
  /\ resultDisplay' = Render(app', resultDisplay)
  /\ Op("handleReset", <<>>)
  /\ inFlight' = Supersede(inFlight)
  /\ UNCHANGED <<editorVars, clientVars>>

\* The close button of the error notification.
dismissError ==
  /\ app.errorMsg # <<>>
  /\ app' = [app EXCEPT !.errorMsg = <<>>]
  /\ resultDisplay' = Render(app', resultDisplay)
  /\ Op("dismissError", <<>>)
  /\ UNCHANGED inFlight
  /\ UNCHANGED <<editorVars, clientVars>>

\* ResultDisplay's mask button, shown while nothing is generating.
toggleMaskMode ==
  /\ resultDisplay.shown /\ app.appState # "GENERATING"
  /\ resultDisplay' =
       [resultDisplay EXCEPT
          !.isMasking = ~@,
          !.activeTab = IF resultDisplay.isMasking THEN @ ELSE "generated"]
  /\ Op("toggleMaskMode", <<>>)
  /\ UNCHANGED <<app, inFlight>>
  /\ UNCHANGED <<editorVars, clientVars>>

\* ResultDisplay's view buttons.
setActiveTab ==
  \E tab \in Tabs :
    /\ resultDisplay.shown
    /\ resultDisplay' =
         [resultDisplay EXCEPT
            !.activeTab = tab,
            !.isMasking = IF tab = "generated" THEN @ ELSE FALSE]
    /\ resultDisplay' # resultDisplay
    /\ Op("setActiveTab", <<>>)
    /\ UNCHANGED <<app, inFlight>>
    /\ UNCHANGED <<editorVars, clientVars>>

\* ResultDisplay's history timeline, shown outside of mask mode.
setSelectedHistoryIndex ==
  \E idx \in 0..(Len(app.renderHistory) - 1) :
    /\ resultDisplay.shown /\ ~resultDisplay.isMasking
    /\ idx # resultDisplay.selectedHistoryIndex
    /\ resultDisplay' = [resultDisplay EXCEPT !.selectedHistoryIndex = idx]
    /\ Op("setSelectedHistoryIndex", <<>>)
    /\ UNCHANGED <<app, inFlight>>
    /\ UNCHANGED <<editorVars, clientVars>>

\* App has mounted; the editor is not looked at.
InitApp ==
  /\ Init
  /\ imageSrc = "imgB"
  /\ ctx2d = TRUE

NextApp ==
  \/ handleImageSelected
  \/ handleStartAnalysis
  \/ analysisResolved
  \/ analysisRejected
  \/ handlePartialEdit
  \/ setAnalysisPrompt
  \/ handleGenerate
  \/ handleRefine
  \/ handleUpscale
  \/ generationResolved
  \/ generationRejected
  \/ handleReset
  \/ dismissError
  \/ toggleMaskMode
  \/ setActiveTab
  \/ setSelectedHistoryIndex

SpecApp == InitApp /\ [][NextApp]_vars

\* ===================================================== claims C1..C10
StrokeListEmpty == Len(paths) = 0
ExportRan == lastOp = "getMaskBase64"
Result == exported[1]
\* The stroke the last gesture-end committed.
Committed == lastOp = "stopDrawing" /\ emitted = <<TRUE>>
LastStroke == paths[Len(paths)]

C2_InProgressStrokeNotExported ==
  (ExportRan /\ trail # NoTrail) => exported = trail

C2_Witness ==
  /\ ExportRan /\ trail # NoTrail
  /\ isDrawing /\ Len(currentPath) >= 2
  /\ ~Result.null

\* C3: a non-null mask has the native width and height of the current
\* source image.
C3_MaskHasNativeSize ==
  (ExportRan /\ ~Result.null) =>
    /\ Result.width = Natural[imageSrc].width
    /\ Result.height = Natural[imageSrc].height

\* C4: clearMask, issued while Idle or Drawing, leaves the Stroke List and
\* the in-progress sequence empty and hasStrokes false and calls
\* onMaskChange(false); from then until a stroke is committed
\* getMaskBase64 returns null.
C4_ClearResetsEverything ==
  /\ lastOp = "clearMask" =>
       /\ paths = <<>> /\ currentPath = <<>>
       /\ ~hasStrokes
       /\ emitted = <<FALSE>>
  /\ sinceClear =>
       /\ getMaskBase64 = NoMask
       /\ ExportRan => Result = NoMask

C4_Witness ==
  /\ sinceClear /\ ExportRan /\ Result = NoMask
  /\ isDrawing /\ Len(currentPath) > 0

\* C5: after the imageSrc prop changed, the Stroke List and the in-progress
\* sequence are empty, hasStrokes is false and getMaskBase64 returns null.
C5_NewImageResetsDrawing ==
  lastOp = "setImageSrc" =>
    /\ paths = <<>> /\ currentPath = <<>>
    /\ ~hasStrokes
    /\ getMaskBase64 = NoMask

\* C6: the size stored with a committed stroke is the brush size at the
\* moment the stroke's gesture started.
C6_SizeFixedAtGestureStart ==
  Committed => LastStroke.size = brushAtStart

\* C7: every operation but clear leaves the Stroke List as it is or appends
\* one stroke at its end; committed strokes keep points, size and order.
AppendOnlyOps ==
  {"startDrawing", "drawMove", "stopDrawing", "setBrushSize",
   "getMaskBase64", "imageOnload"}

C7_StrokeListAppendOnly ==
  [][lastOp' \in AppendOnlyOps =>
       \/ paths' = paths
       \/ /\ Len(paths') = Len(paths) + 1
          /\ SubSeq(paths', 1, Len(paths)) = paths]_vars

C7_Witness ==
  /\ Committed /\ Len(paths) = 2
  /\ paths[1].points # paths[2].points
  /\ paths[1].size # paths[2].size

\* C8: two getMaskBase64 calls in a row return the same result.
C8_ExportIdempotent ==
  prevExported # NotCalled => exported = prevExported

C8_Witness ==
  prevExported # NotCalled /\ ~Result.null /\ Len(Result.painted) > 0

\* C9: a getMaskBase64 call changes nothing in the editor and calls
\* onMaskChange not at all.
C9_ExportHasNoSideEffects ==
  [][lastOp' = "getMaskBase64" =>
       /\ UNCHANGED <<paths, currentPath, isDrawing, brushSize, hasStrokes,
                      visible>>
       /\ emitted' = <<>>]_vars

C9_Witness ==
  /\ ExportRan /\ ~Result.null
  /\ isDrawing /\ Len(currentPath) >= 2
  /\ visible # Stroked(paths)

\* C10: every step that flips "has any committed strokes" calls
\* onMaskChange with the new value.
C10_FlipIsNotified ==
  [][(hasStrokes' # hasStrokes \/ (paths' = <<>>) # (paths = <<>>)) =>
       emitted' = <<hasStrokes'>>]_vars

C10_Witness ==
  lastOp = "clearMask" /\ ~isDrawing /\ emitted = <<FALSE>> /\ ~hasStrokes

\* ==================================================== claims C11..C20
\* C11: a gesture-start received while Drawing with points recorded either
\* leaves the in-progress sequence as it is or commits those points as a
\* stroke at the end of the Stroke List; the points are never dropped.
C11_SecondStartKeepsPoints ==
  [][(lastOp' = "startDrawing" /\ isDrawing /\ Len(currentPath) > 0) =>
       \/ currentPath' = currentPath
       \/ /\ Len(paths') = Len(paths) + 1
          /\ paths'[Len(paths')].points = currentPath]_vars

\* The arguments and the result of the getCoordinates call that ran last.
MapRan == lastOp = "getCoordinates"
MapEvent == mapIn[1].e
MapRect == mapIn[1].rect
WellFormed == Len(MapEvent.points) > 0
AtCentre == WellFormed /\ MapEvent.points[1] = Centre(MapRect)
RasterCentre ==
  [x |-> Half(ToDouble(canvas.width)), y |-> Half(ToDouble(canvas.height))]

\* The point the formula of the claim yields for the last call.
Formula ==
  [x |-> fmul(MapEvent.points[1].clientX - MapRect.left,
              fdiv(canvas.width, MapRect.width)),
   y |-> fmul(MapEvent.points[1].clientY - MapRect.top,
              fdiv(canvas.height, MapRect.height))]

\* a / b is a double: the division rounds nothing away.
ExactQuotient(a, b) == (a * 2^12) % b = 0
\* Two doubles are equal or next to each other.
Adjacent(c, d) ==
  \/ c = d
  \/ c = Successor(d.sig[1], d.sig[2], d.sig[3], d.exp)
  \/ d = Successor(c.sig[1], c.sig[2], c.sig[3], c.exp)

\* C12 as stated: getCoordinates returns the point of the formula, and for
\* an event at the exact centre of the box the exact centre of the raster,
\* whatever the box and the raster size.
C12_CentreMapsToCentreExactly ==
  (MapRan /\ mounted /\ WellFormed) =>
    /\ mapOut = <<Formula>>
    /\ AtCentre => mapOut = <<RasterCentre>>

\* C12 amended: getCoordinates returns the point of the formula as double
\* arithmetic computes it; for an event at the centre of the box each
\* coordinate is the raster centre or a double next to it, and it is the
\* raster centre when raster size / box size is a double on that axis; an
\* integer quotient of an exact scale is returned as that integer.
C12_CentreMapsToCentreRounded ==
  (MapRan /\ mounted /\ WellFormed) =>
    /\ mapOut = <<Formula>>
    /\ AtCentre =>
         /\ Adjacent(mapOut[1].x, RasterCentre.x)
         /\ Adjacent(mapOut[1].y, RasterCentre.y)
         /\ ExactQuotient(canvas.width, MapRect.width)
              => mapOut[1].x = RasterCentre.x
         /\ ExactQuotient(canvas.height, MapRect.height)
              => mapOut[1].y = RasterCentre.y
    /\ (MapRect \in Rects /\ MapEvent \in Events(MapRect)) =>
         /\ mapOut[1].x = ToDouble(getCoordinates(MapEvent, MapRect).x)
         /\ mapOut[1].y = ToDouble(getCoordinates(MapEvent, MapRect).y)

C12_Witness ==
  /\ MapRan /\ mounted /\ AtCentre
  /\ MapRect.left > 0
  /\ ~ExactQuotient(canvas.width, MapRect.width)
  /\ mapOut[1].x # RasterCentre.x
  /\ mapOut[1].y = RasterCentre.y

\* C13: for a touch event whose touches list is empty getCoordinates raises
\* nothing and returns the origin (0, 0).
C13_MalformedEventMapsToOrigin ==
  (MapRan /\ ~WellFormed) => (~threw /\ mapOut = <<Origin>>)

\* C14: while no rendering context is available, a gesture-start, move or
\* gesture-end that raises nothing leaves the Stroke List, the in-progress
\* sequence and hasStrokes as they were.
GestureOps == {"startDrawing", "drawMove", "stopDrawing"}

C14_NoContextNoRecording ==
  [][(~ctx2d /\ lastOp' \in GestureOps /\ ~threw') =>
       UNCHANGED <<paths, currentPath, hasStrokes>>]_vars

\* C15: the Stroke List becomes non-empty only by a gesture-end that closes
\* an active gesture holding at least one point, which it commits as the
\* only stroke; so a non-empty list holds a gesture completed since the
\* last clear. Every stroke in the list has at least one point.
C15_StrokesComeFromGestures ==
  [][/\ \A i \in 1..Len(paths') : Len(paths'[i].points) >= 1
     /\ (paths = <<>> /\ paths' # <<>>) =>
          /\ lastOp' = "stopDrawing"
          /\ isDrawing /\ Len(currentPath) >= 1
          /\ paths' = <<[points |-> currentPath, size |-> brushSize]>>]_vars

C15_Witness ==
  /\ Committed /\ sinceClear = FALSE
  /\ Len(paths) = 1 /\ Len(paths[1].points) = 1

\* C16: in a non-null mask a pixel is white exactly when some committed
\* stroke, drawn as a round-capped, round-joined polyline of its own
\* diameter, covers it, however the strokes overlap, and black otherwise.
\* For the 800 x 600 raster and the one stroke (100,100)-(300,100) of
\* diameter 20 the white pixels are the rows 90..109 between the columns
\* 90 and 309, all of them from column 100 to 299.
CoveredBy(stroke, q) ==
  \E i \in 1..(Len(stroke.points) - 1) :
    InCapsule(2 * q[1] + 1, 2 * q[2] + 1, stroke.points[i],
              stroke.points[i + 1], stroke.size)

White(q) == pixel(Result, q[1], q[2]) = "white"
Black(q) == pixel(Result, q[1], q[2]) = "black"
InBand(q) == 90 <= q[1] /\ q[1] <= 309 /\ 90 <= q[2] /\ q[2] <= 109

C16_MaskIsUnionOfStrokes ==
  (ExportRan /\ ~Result.null) =>
    /\ \A q \in Inside(Result) :
         /\ White(q) \/ Black(q)
         /\ White(q) <=> \E i \in 1..Len(paths) : CoveredBy(paths[i], q)
    /\ (paths = <<ExampleStroke>> /\ Result.width = 800 /\ Result.height = 600)
         => \A q \in Inside(Result) :
              /\ White(q) => InBand(q)
              /\ (InBand(q) /\ 100 <= q[1] /\ q[1] <= 299) => White(q)
              /\ (q[2] = 100 /\ InBand(q)) => White(q)

C16_Witness ==
  /\ ExportRan /\ ~Result.null
  /\ Result.width = 800 /\ Result.height = 600
  /\ paths = <<ExampleStroke>>
  /\ White(<<90, 100>>) /\ Black(<<89, 100>>)
  /\ White(<<309, 100>>) /\ Black(<<310, 100>>)
  /\ White(<<200, 90>>) /\ Black(<<200, 89>>)
  /\ White(<<200, 109>>) /\ Black(<<200, 110>>)

\* C17: when the editor's getMaskBase64 yields null, performGeneration
\* called without an override mask hands no mask to generateRenderedImage,
\* and handleRefineSubmit calls onRefine with the text alone: no mask and
\* no source override.
Request == sent[1]

C17_NullMeansNoMasking ==
  /\ (lastOp = "performGeneration" /\ Request.overrideMask = <<>>
        /\ getMaskBase64.null)
       => Request.mask = <<>>
  /\ (lastOp = "handleRefineSubmit" /\ Request.issued /\ getMaskBase64.null)
       => (Request.mask = <<>> /\ Request.source = <<>>)

C17_Witness ==
  /\ lastOp = "handleRefineSubmit" /\ Request.issued /\ Request.masking
  /\ mounted /\ ctx2d /\ paths = <<>> /\ Len(currentPath) > 0
  /\ Request.mask = <<>> /\ Request.source = <<>>

\* The points getCoordinates can return for an event that has a position.
MappedPoints ==
  UNION {{getCoordinates(e, rect) :
            e \in {ev \in Events(rect) : Len(ev.points) > 0}} :
         rect \in Rects}

\* C18: a gesture-start received while Idle leaves the recorder Drawing
\* with an in-progress sequence of exactly one point, a mapped coordinate,
\* and the Stroke List and hasStrokes as they were.
C18_StartRecordsOnePoint ==
  [][(lastOp' = "startDrawing" /\ ~isDrawing) =>
       /\ isDrawing'
       /\ Len(currentPath') = 1
       /\ currentPath'[1] \in MappedPoints
       /\ UNCHANGED <<paths, hasStrokes>>]_vars

\* C19: a move received while Drawing appends exactly one point, a mapped
\* coordinate, to the in-progress sequence, keeps the recorder Drawing and
\* leaves the Stroke List as it was.
C19_MoveAppendsOnePoint ==
  [][(lastOp' = "drawMove" /\ isDrawing) =>
       /\ isDrawing'
       /\ Len(currentPath') = Len(currentPath) + 1
       /\ SubSeq(currentPath', 1, Len(currentPath)) = currentPath
       /\ currentPath'[Len(currentPath')] \in MappedPoints
       /\ UNCHANGED paths]_vars

\* C20: a move received while Idle raises nothing and changes nothing: the
\* recorder stays Idle, and the in-progress sequence, the Stroke List,
\* hasStrokes and the canvas are as they were, with no onMaskChange call.
C20_IdleMoveIsIgnored ==
  [][(lastOp' = "drawMove" /\ ~isDrawing) =>
       /\ UNCHANGED <<isDrawing, currentPath, paths, hasStrokes, visible>>
       /\ ~threw'
       /\ emitted' = <<>>]_vars

C20_Witness ==
  /\ lastOp = "drawMove" /\ ~isDrawing
  /\ hasStrokes /\ Len(paths) >= 1 /\ currentPath = <<>>

\* ==================================================== claims C21..C30
\* C21: a gesture-end received while Drawing leaves the recorder Idle and
\* the in-progress sequence empty; if the sequence held points, one stroke
\* with those points in order is appended to the Stroke List and
\* hasStrokes is true, and else the list and hasStrokes are as they were.
\* A gesture-end received while Idle appends nothing, leaves hasStrokes
\* and the recorder as they were and calls onMaskChange not at all.
C21_GestureEndCommits ==
  [][lastOp' = "stopDrawing" =>
       IF isDrawing
       THEN /\ ~isDrawing'
            /\ currentPath' = <<>>
            /\ IF Len(currentPath) > 0
               THEN /\ Len(paths') = Len(paths) + 1
                    /\ SubSeq(paths', 1, Len(paths)) = paths
                    /\ paths'[Len(paths')].points = currentPath
                    /\ hasStrokes'
               ELSE UNCHANGED <<paths, hasStrokes>>
       ELSE /\ UNCHANGED <<isDrawing, currentPath, paths, hasStrokes>>
            /\ emitted' = <<>>]_vars

C21_Witness ==
  /\ Committed /\ ~isDrawing /\ currentPath = <<>> /\ hasStrokes
  /\ Len(paths) = 2 /\ Len(LastStroke.points) >= 2
  /\ LastStroke.points[1] # LastStroke.points[2]

\* C22: whenever the recorder is Idle the in-progress sequence is empty.
C22_IdleHasNoPoints ==
  ~isDrawing => currentPath = <<>>

C22_Witness ==
  /\ ~isDrawing /\ currentPath = <<>>
  /\ lastOp = "stopDrawing" /\ brushAtStart # 0
  /\ sinceClear /\ emitted = <<>>

\* The calls of the running function, and how the settled ones ended.
Generating == clientFn = "generateRenderedImage"
Analysing == clientFn = "analyzeInteriorImage"
Ended == clientPc \in {"returned", "threw"}
Settled == 1..Len(responses)
CallsTo(model) ==
  Cardinality({i \in 1..Len(modelCalls) : modelCalls[i].model = model})
Outcome(i) ==
  IF Generating THEN tryGenerateResult(responses[i])
  ELSE analysisResult(responses[i])
TransientFailure(i) == Outcome(i).threw /\ isTransient(Outcome(i).error)
OtherFailure(i) == Outcome(i).threw /\ ~isTransient(Outcome(i).error)

\* C23: every request generateRenderedImage sends is in the mode its
\* resolution and mask decide: in-painting when a mask is given (also at
\* 4K), upscale at 4K with no mask, standard otherwise. The source image
\* is the second part in every mode, and there is a third part, the mask,
\* exactly in in-painting mode.
C23_ModeFromResolutionAndMask ==
  Generating =>
    \A i \in 1..Len(modelCalls) :
      LET parts == modelCalls[i].parts
          mode == parts[1].data
      IN /\ parts[1].kind = "text"
         /\ mode = (IF truthy(clientArgs.mask) THEN "inpainting"
                    ELSE IF clientArgs.resolution = "4K" THEN "upscale"
                    ELSE "standard")
         /\ parts[2] = InlineData("base64Source")
         /\ Len(parts) \in {2, 3}
         /\ Len(parts) = 3 <=> mode = "inpainting"
         /\ Len(parts) = 3 => parts[3] = InlineData(clientArgs.mask[1])

C23_Witness ==
  /\ Generating /\ Len(modelCalls) = 4
  /\ clientArgs.resolution = "4K" /\ clientArgs.mask = <<"maskPng">>
  /\ \A i \in 1..4 : /\ modelCalls[i].parts[1].data = "inpainting"
                     /\ Len(modelCalls[i].parts) = 3

\* What C29 and C30 say of the calls made so far, for the primary model
\* and the fallback model of the running function.
RetryPolicy(primary, fallback) ==
  /\ CallsTo(primary) <= 3
  /\ CallsTo(fallback) <= 1
  /\ \A i \in 1..Len(modelCalls) :
       modelCalls[i].model = fallback =>
         /\ i = 4
         /\ \A j \in 1..3 : modelCalls[j].model = primary
                            /\ TransientFailure(j)
  /\ (Len(responses) >= 3 /\ \A j \in 1..3 : TransientFailure(j)) =>
       /\ Len(modelCalls) = 4
       /\ modelCalls[4].model = fallback
  /\ \A i \in Settled :
       /\ (modelCalls[i].model = primary /\ OtherFailure(i)) =>
            (Len(modelCalls) = i /\ clientPc = "threw")
       /\ (modelCalls[i].model = fallback /\ Outcome(i).threw) =>
            (Len(modelCalls) = i /\ clientPc = "threw")
       /\ ~Outcome(i).threw =>
            (Len(modelCalls) = i /\ clientPc = "returned")
  /\ clientPc # "afterLoop"
  /\ clientPc = "returned" =>
       /\ ~clientResult[1].threw
       /\ clientResult[1].value = Outcome(Len(responses)).value
  /\ clientPc = "threw" => clientResult[1].threw

\* C29: a call of analyzeInteriorImage ends, with a text returned from the
\* try block or with an error thrown, provided its model calls settle. The
\* primary model is called at most 3 times and the fallback model once,
\* after three transient failures of the primary model; a failure that is
\* not transient is thrown with no further call, and the function never
\* returns through the return "" after the loop.
C29_AnalysisRetriesThenFallsBack ==
  /\ [](Analysing =>
          RetryPolicy("gemini-3-pro-preview", "gemini-2.5-flash"))
  /\ (Analysing ~> Ended)

C29_Witness ==
  /\ Analysing /\ clientPc = "returned"
  /\ CallsTo("gemini-3-pro-preview") = 3
  /\ CallsTo("gemini-2.5-flash") = 1
  /\ attempts = 2
  /\ clientResult[1].value = "warm oak floor"

\* C30: a call of generateRenderedImage ends, with image data returned or
\* with an error thrown, provided its model calls settle. The primary image
\* model is called at most 3 times and the fallback image model once, after
\* three transient failures of the primary model; a failure that is not
\* transient and a failure of the fallback are thrown, and no call is made
\* after a call has succeeded. The data returned is not empty.
C30_GenerationRetriesThenFallsBack ==
  /\ [](Generating =>
          /\ RetryPolicy("gemini-3-pro-image-preview",
                         "gemini-2.5-flash-image")
          /\ clientPc = "returned" => clientResult[1].value # "")
  /\ (Generating ~> Ended)

C30_Witness ==
  /\ Generating /\ clientPc = "threw"
  /\ CallsTo("gemini-3-pro-image-preview") = 3
  /\ CallsTo("gemini-2.5-flash-image") = 1
  /\ Outcome(4).threw
  /\ clientResult[1].error # Outcome(4).error

\* A step of the application made by one of the handlers named.
Did(names) == appOp'.name \in names
IsPrefix(s, t) == Len(s) <= Len(t) /\ SubSeq(t, 1, Len(s)) = s
Newest(a) == a.renderHistory[Len(a.renderHistory)]

\* C24: each successful generation appends exactly one item, carrying the
\* prompt and the resolution of its request, to the end of the render
\* history and moves the application to COMPLETE; any step other than a
\* new-image selection or a reset leaves the items the history had in
\* place, unchanged and in order.
C24_HistoryAppendOnly ==
  [][/\ Did({"generationResolved"}) =>
          /\ Len(app'.renderHistory) = Len(app.renderHistory) + 1
          /\ IsPrefix(app.renderHistory, app'.renderHistory)
          /\ Newest(app').prompt = appOp'.call[1].prompt
          /\ Newest(app').resolution = appOp'.call[1].resolution
          /\ Newest(app').imageUrl \in ImageData
          /\ app'.appState = "COMPLETE"
     /\ ~Did({"handleImageSelected", "handleReset"}) =>
          IsPrefix(app.renderHistory, app'.renderHistory)]_vars

C24_Witness ==
  /\ appOp.name = "generationResolved"
  /\ appOp.call[1].caller = "handleUpscale"
  /\ Len(app.renderHistory) = 2
  /\ Newest(app).resolution = "4K"
  /\ Newest(app).prompt = appOp.call[1].prompt
  /\ app.renderHistory[1].resolution = "2K"
  /\ app.appState = "COMPLETE"

\* C25: performGeneration sends the override mask whenever one is given;
\* otherwise the mask of the App's editor, and only if masking mode is on
\* and no override source is given; otherwise, as for every upscale, none.
C25_MaskPrecedence ==
  lastOp = "performGeneration" =>
    /\ Request.overrideMask # <<>> => Request.mask = Request.overrideMask
    /\ (/\ Request.overrideMask = <<>>
        /\ Request.masking /\ Request.overrideSource = <<>>)
         => Request.mask = (IF getMaskBase64.null THEN <<>>
                            ELSE <<getMaskBase64>>)
    /\ (/\ Request.overrideMask = <<>>
        /\ ~(Request.masking /\ Request.overrideSource = <<>>))
         => Request.mask = <<>>

C25_Witness ==
  /\ lastOp = "performGeneration"
  /\ Request.masking /\ mounted /\ ~getMaskBase64.null
  /\ Request.overrideSource # <<>> /\ Request.overrideMask = <<>>
  /\ Request.mask = <<>>

\* C26: when a generation request fails the application is back in
\* READY_TO_GENERATE with a non-empty error message, the source image
\* still there to retry with, and the render history is what it was when
\* the request was made.
C26_FailureAllowsRetry ==
  appOp.name = "generationRejected" =>
    /\ app.appState = "READY_TO_GENERATE"
    /\ app.errorMsg # <<>> /\ app.errorMsg # <<"">>
    /\ app.sourceImage # "none"
    /\ app.renderHistory = appOp.call[1].historyBefore

\* C27: selecting a source image leaves the render history, the prompt and
\* the error message empty and masking mode off, with the application in
\* IMAGE_LOADED and no call started; reset does the same, leaves no source
\* image and puts the application in IDLE.
C27_SelectAndResetClear ==
  [][/\ Did({"handleImageSelected"}) =>
          /\ app' = [AppMounted EXCEPT !.sourceImage = app'.sourceImage,
                                       !.appState = "IMAGE_LOADED"]
          /\ app'.sourceImage \in SourceImages
          /\ inFlight' = Supersede(inFlight) /\ appOp'.call = <<>>
     /\ Did({"handleReset"}) =>
          /\ app' = AppMounted
          /\ inFlight' = Supersede(inFlight) /\ appOp'.call = <<>>]_vars

C27_Witness ==
  /\ appOp.name = "handleReset"
  /\ app = AppMounted /\ ~resultDisplay.shown
  /\ Len(inFlight) = 1
  /\ inFlight[1].kind = "generate" /\ inFlight[1].historyBefore # <<>>

\* C28: in ResultDisplay, when the length of the history changes to a
\* non-zero value the newest item is the selected one and mask mode is off;
\* a masked refine has the selected history image as its source.
C28_NewestSelectedMaskOff ==
  [][/\ (/\ resultDisplay'.shown
         /\ Len(app'.renderHistory) # Len(app.renderHistory)
         /\ Len(app'.renderHistory) > 0)
          => /\ resultDisplay'.selectedHistoryIndex
                  = Len(app'.renderHistory) - 1
             /\ ~resultDisplay'.isMasking
     /\ (/\ Did({"handleRefine"}) /\ appOp'.call # <<>>
         /\ appOp'.call[1].prompt[1] = "masked edit")
          => /\ resultDisplay.isMasking
             /\ appOp'.call[1].mask # <<>>
             /\ appOp'.call[1].source = <<currentGeneratedBase64>>]_vars

C28_Witness ==
  /\ appOp.name = "generationResolved"
  /\ appOp.call[1].caller = "handleRefine"
  /\ appOp.call[1].prompt[1] = "masked edit"
  /\ appOp.call[1].source = <<app.renderHistory[1].imageUrl>>
  /\ Len(appOp.call[1].historyBefore) = 1
  /\ resultDisplay.shown /\ ~resultDisplay.isMasking
  /\ resultDisplay.selectedHistoryIndex = 1

\* ===================================================== claims C31..C36
\* C31: in every state of the editor the hasStrokes flag is true exactly
\* when the committed Stroke List is non-empty, a change notification
\* carries the value of the flag, and the flag changes only in a step that
\* notifies, so that the most recent notification equals the flag.
C31_FlagTracksStrokeList ==
  /\ [](/\ hasStrokes <=> paths # <<>>
        /\ emitted # <<>> => emitted[Len(emitted)] = hasStrokes)
  /\ [][hasStrokes' # hasStrokes => emitted' # <<>>]_vars

C31_Witness ==
  /\ lastOp = "clearMask" /\ emitted = <<FALSE>>
  /\ isDrawing /\ ~hasStrokes /\ paths = <<>>

\* The pixels of a mask nearest to the recorded points of the strokes.
Min(a, b) == IF a < b THEN a ELSE b
NearPoints(mask, strokes) ==
  UNION {{<<Min(strokes[k].points[i].x, mask.width - 1),
             Min(strokes[k].points[i].y, mask.height - 1)>> :
             i \in 1..Len(strokes[k].points)} : k \in 1..Len(strokes)}

\* C32: a non-null exported mask marks at least one pixel editable: some
\* pixel at a recorded point of a committed stroke is white, also when the
\* stroke is the single point of a gesture-start followed at once by a
\* gesture-end.
C32_NonNullMaskHasWhite ==
  (lastOp = "getMaskBase64" /\ exported # NotCalled /\ ~exported[1].null)
    => \E q \in NearPoints(exported[1], paths) :
         pixel(exported[1], q[1], q[2]) = "white"

\* The generateRenderedImage calls that have not settled.
Generations == {i \in 1..Len(inFlight) : inFlight[i].kind = "generate"}

\* C33: at most one generation request is in flight at any time, whatever
\* the user does through the enabled controls and whenever calls settle.
C33_OneGenerationInFlight == Cardinality(Generations) <= 1

\* C34: the render history holds only results of requests made for the
\* current source image: a generation that completes after a reset or
\* after the selection of an image made since its request appends nothing
\* to the history and does not move the application to COMPLETE.
C34_StaleResultsAreDropped ==
  [][(Did({"generationResolved"}) /\ appOp'.call[1].superseded) =>
       /\ app'.renderHistory = app.renderHistory
       /\ app'.appState = app.appState]_vars

\* C35: the application is never in GENERATING without a generation
\* request in flight: a step of performGeneration that enters GENERATING
\* issues a call of the generation client, and the step in which a call
\* settles leaves the application in COMPLETE or READY_TO_GENERATE.
C35_GeneratingHasRequest ==
  /\ [](app.appState = "GENERATING" => Generations # {})
  /\ [][(Did({"handleGenerate", "handleRefine", "handleUpscale"})
         /\ app'.appState = "GENERATING") => appOp'.call # <<>>]_vars
  /\ [][Did({"generationResolved", "generationRejected"}) =>
          app'.appState \in {"COMPLETE", "READY_TO_GENERATE"}]_vars

\* The lifecycle controls the rendered page offers: the change button and
\* ResultDisplay's close button, the analyse and re-analyse buttons, the
\* generate button, and ResultDisplay's refine input.
ResetOffered ==
  \/ /\ app.sourceImage # "none"
     /\ ~(app.isMaskingMode /\ app.appState # "ANALYZING")
     /\ app.appState # "GENERATING"
  \/ resultDisplay.shown
AnalyzeOffered ==
  \/ app.sourceImage # "none" /\ app.appState = "IMAGE_LOADED"
  \/ PromptEditorShown(app) /\ app.appState # "GENERATING"
GenerateOffered ==
  /\ PromptEditorShown(app)
  /\ app.appState # "GENERATING" /\ app.analysisPrompt # <<>>
RefineOffered == resultDisplay.shown /\ app.appState # "GENERATING"

\* C36: there is no dead end: in every state with a source image loaded
\* and no request in flight, reset, analyse, generate or refine is offered.
C36_NoDeadEnd ==
  (app.sourceImage # "none" /\ inFlight = <<>>) =>
    (ResetOffered \/ AnalyzeOffered \/ GenerateOffered \/ RefineOffered)

====
